---- MODULE Spec2Model ----
(***************************************************************************)
(* A model of the adaptive ingestion pipeline of code2doc: batch packing,  *)
(* embedding validation, the dual-store writer and its locks, repository   *)
(* fingerprints and update-mode change detection.                          *)
(*                                                                         *)
(* Each component has its own variables, its own initial predicate and    *)
(* its own specification; the variables of the other components stay at   *)
(* their idle values under it.                                             *)
(***************************************************************************)
EXTENDS Integers, Sequences, FiniteSets, TLC

VARIABLES
    \* AdaptiveRepositoryProcessor._create_memory_safe_batches
    files,                  \* the argument: a list of FileClassification
    safe_memory_threshold,  \* file_classifier.safe_memory_threshold * 1024
    batches,                \* the returned list of batches
    packed,                 \* whether the call has returned
    \* EmbeddingService.generate
    embedding_dim,          \* self.embedding_dim, fixed by __init__
    gen_chunks,             \* the argument: a list of Chunk
    gen_vectors,            \* the outcome of embeddings.embed_documents(texts)
    result_embeddings,      \* the returned list of Embedding
    generated,              \* whether the call has returned
    \* RepositoryManager: a local repository on disk and its fingerprints
    disk_root,              \* the parts of the repository path
    disk_exists,            \* Path(repository_path).exists()
    disk_files,             \* relative path -> the file there (content 0: none)
    hash_calls,             \* the calls of calculate_repository_hash so far
    edits,                  \* the changes made to the repository since
    stored_hash,            \* repositories.content_hash of the repository
    check,                  \* the update-mode part of main: what it checked,
                            \* cleaned up and handed to ETLWorkflow.run
    \* QdrantBatchWriter: the two locks and the threads that call the writer
    sqlite_lock,            \* self.sqlite_lock: the thread that holds it
    qdrant_lock,            \* self.qdrant_lock: the thread that holds it
    lock_op,                \* thread -> the writer operation it is in
    lock_program,           \* thread -> the lock steps it still has to take
    \* QdrantBatchWriter: the relational store and the vector store
    document_rows,          \* the rows of the table documents
    chunk_rows,             \* the rows of the table chunks
    repository_rows,        \* the rows of the table repositories
    points,                 \* the points of the Qdrant collection
    last_write,             \* the last direct call of a write_* method
    hash_seed,              \* the seed of hash() of a str in the running process
    \* AdaptiveRepositoryProcessor: ingestion of one local repository
    repo_files,             \* the files of the repository: their chunk texts
    file_tier,              \* the size tier of each of these files
    next_uuid,              \* the next value of uuid4()
    run,                    \* the position of process_repository_adaptive
    last_batch,             \* what the last batch of the run was and did
    log,                    \* the ingestions and deletions finished so far
    \* AdaptiveFileClassifier.classify_files
    file_paths,             \* the argument: the paths, each with what is there
    classifications,        \* the returned dict: FileSize -> list of files
    classified,             \* whether the call has returned
    \* main and ETLWorkflow.run: the passes of main over its sources
    main_sources,           \* the argument repositories of main
    tree,                   \* path -> what is at that path on disk
    catalog,                \* the relational tables main and the run work on
    workflow,               \* the position of main and of ETLWorkflow.run
    \* StreamingFileReader and the document loaders of the three strategies
    reader_file,            \* the bytes of the file handed to a strategy
    reader_out,             \* what the strategy read and made of the file
    \* The construction of QdrantBatchWriter and of EmbeddingService
    writer_class,           \* QdrantBatchWriter._instance and ._initialized
    writer_self,            \* the attributes of the one writer object
    handed_out,             \* the writers returned to callers so far
    qdrant_collection,      \* the Qdrant collection "documents" on disk
    service,                \* the EmbeddingService and what it generated
    \* main in update mode over one local repository
    local_disk,             \* the repository on disk
    local_db,               \* the rows stored for the repository
    update_runs             \* what each update-mode run of main did

batchVars == <<files, safe_memory_threshold, batches, packed>>
embedVars == <<embedding_dim, gen_chunks, gen_vectors, result_embeddings, generated>>

diskVars == <<disk_root, disk_exists, disk_files>>
hashVars == <<diskVars, hash_calls, edits, stored_hash, check>>

lockVars == <<sqlite_lock, qdrant_lock, lock_op, lock_program>>

storeVars == <<document_rows, chunk_rows, repository_rows, points, last_write, hash_seed>>
ingestVars == <<repo_files, file_tier, next_uuid, run, last_batch, log>>
classifyVars == <<file_paths, classifications, classified>>
workflowVars == <<main_sources, tree, catalog, workflow>>
readerVars == <<reader_file, reader_out>>
setupVars == <<writer_class, writer_self, handed_out, qdrant_collection, service>>
updateVars == <<local_disk, local_db, update_runs>>

vars == <<batchVars, embedVars, hashVars, lockVars, storeVars, ingestVars, classifyVars,
          workflowVars, readerVars, setupVars, updateVars>>

\* What an action of one component leaves alone.
exceptBatch ==
    <<embedVars, hashVars, lockVars, storeVars, ingestVars, classifyVars, workflowVars,
      readerVars, setupVars, updateVars>>
exceptEmbed ==
    <<batchVars, hashVars, lockVars, storeVars, ingestVars, classifyVars, workflowVars,
      readerVars, setupVars, updateVars>>
exceptHash ==
    <<batchVars, embedVars, lockVars, storeVars, ingestVars, classifyVars, workflowVars,
      readerVars, setupVars, updateVars>>
exceptLock ==
    <<batchVars, embedVars, hashVars, storeVars, ingestVars, classifyVars, workflowVars,
      readerVars, setupVars, updateVars>>
exceptStore ==
    <<batchVars, embedVars, hashVars, lockVars, classifyVars, workflowVars,
      readerVars, setupVars, updateVars>>
exceptClassify ==
    <<batchVars, embedVars, hashVars, lockVars, storeVars, ingestVars, workflowVars,
      readerVars, setupVars, updateVars>>
exceptWorkflow ==
    <<batchVars, embedVars, hashVars, lockVars, storeVars, ingestVars, classifyVars,
      readerVars, setupVars, updateVars>>
exceptReader ==
    <<batchVars, embedVars, hashVars, lockVars, storeVars, ingestVars, classifyVars,
      workflowVars, setupVars, updateVars>>
exceptSetup ==
    <<batchVars, embedVars, hashVars, lockVars, storeVars, ingestVars, classifyVars,
      workflowVars, readerVars, updateVars>>
exceptUpdate ==
    <<batchVars, embedVars, hashVars, lockVars, storeVars, ingestVars, classifyVars,
      workflowVars, readerVars, setupVars>>

\* ------------------------------------------------------------------------
\* Generic helpers
\* ------------------------------------------------------------------------

RECURSIVE SeqsUpTo(_, _)
\* All sequences over S of length at most n.
SeqsUpTo(S, n) ==
    IF n = 0 THEN {<<>>}
    ELSE LET shorter == SeqsUpTo(S, n - 1)
         IN  shorter \cup {Append(s, x) : s \in {t \in shorter : Len(t) = n - 1}, x \in S}

RECURSIVE Concat(_)
\* The concatenation of a sequence of sequences.
Concat(ss) == IF ss = <<>> THEN <<>> ELSE Head(ss) \o Concat(Tail(ss))

Range(s) == {s[i] : i \in DOMAIN s}

\* ------------------------------------------------------------------------
\* Batch packing (intelligence/adaptive_processor.py, intelligence/classifier.py)
\*
\* memory_requirement_mb = size_bytes * 3 / 2^20 is a float; the model counts
\* memory in units of 2^-20 MB, where it is the integer 3 * size_bytes, and
\* counts the budget safe_memory_threshold * 1024 in the same unit.
\* ------------------------------------------------------------------------

MaxFiles == 3      \* longest list handed to the packer
MaxSize == 3       \* largest size_bytes of a file
MaxBudget == 10    \* largest safe budget

MemoryMultiplier == 3

\* classify_files: memory_requirement_mb = (size_bytes * 3) / (1024**2)
MemoryRequirement(size_bytes) == size_bytes * MemoryMultiplier

FileClassification(path, size_bytes) ==
    [path |-> path, size_bytes |-> size_bytes,
     memory_requirement_mb |-> MemoryRequirement(size_bytes)]

RECURSIVE InsertBySize(_, _)
\* f inserted behind every element whose size_bytes is not larger (stable).
InsertBySize(sorted, f) ==
    IF sorted = <<>> THEN <<f>>
    ELSE IF Head(sorted).size_bytes <= f.size_bytes
         THEN <<Head(sorted)>> \o InsertBySize(Tail(sorted), f)
         ELSE <<f>> \o sorted

RECURSIVE SortedBySize(_)
\* sorted(files, key=lambda f: f.size_bytes)
SortedBySize(fs) ==
    IF fs = <<>> THEN <<>>
    ELSE InsertBySize(SortedBySize(SubSeq(fs, 1, Len(fs) - 1)), fs[Len(fs)])

\* A plausible slip: the file that opens a new batch is not counted.
PackFileForgetsOpener(acc, file, budget) ==
    IF acc.current_memory + file.memory_requirement_mb > budget
       /\ acc.current_batch # <<>>
    THEN [batches |-> Append(acc.batches, acc.current_batch),
          current_batch |-> <<file>>,
          current_memory |-> 0]
    ELSE [batches |-> acc.batches,
          current_batch |-> Append(acc.current_batch, file),
          current_memory |-> acc.current_memory + file.memory_requirement_mb]

\* One iteration of the loop of _create_memory_safe_batches.
PackFile(acc, file, budget) ==
    IF acc.current_memory + file.memory_requirement_mb > budget
       /\ acc.current_batch # <<>>
    THEN [batches |-> Append(acc.batches, acc.current_batch),
          current_batch |-> <<file>>,
          current_memory |-> file.memory_requirement_mb]
    ELSE [batches |-> acc.batches,
          current_batch |-> Append(acc.current_batch, file),
          current_memory |-> acc.current_memory + file.memory_requirement_mb]

RECURSIVE PackAll(_, _, _)
PackAll(acc, fs, budget) ==
    IF fs = <<>> THEN acc
    ELSE PackAll(PackFile(acc, Head(fs), budget), Tail(fs), budget)

\* _create_memory_safe_batches(files), with budget = safe_memory_threshold * 1024
CreateMemorySafeBatches(fs, budget) ==
    LET acc == PackAll([batches |-> <<>>, current_batch |-> <<>>, current_memory |-> 0],
                       SortedBySize(fs), budget)
    IN  IF acc.current_batch # <<>>
        THEN Append(acc.batches, acc.current_batch)
        ELSE acc.batches

BatchIdle ==
    /\ files = <<>>
    /\ safe_memory_threshold = 0
    /\ batches = <<>>
    /\ packed = FALSE

BatchInit ==
    /\ \E sizes \in SeqsUpTo(0..MaxSize, MaxFiles) :
          files = [i \in DOMAIN sizes |-> FileClassification(i, sizes[i])]
    /\ safe_memory_threshold \in 0..MaxBudget
    /\ batches = <<>>
    /\ packed = FALSE

\* The call batches = self._create_memory_safe_batches(files)
CreateBatches ==
    /\ ~packed
    /\ batches' = CreateMemorySafeBatches(files, safe_memory_threshold)
    /\ packed' = TRUE
    /\ UNCHANGED <<files, safe_memory_threshold, exceptBatch>>

BatchNext == CreateBatches

\* ------------------------------------------------------------------------
\* Embedding validation (embeddings/service.py)
\* ------------------------------------------------------------------------

MaxDim == 2        \* largest embedding dimension
MaxChunks == 2     \* longest list of chunks handed to generate

None == <<"None">>                 \* Python's None
NotIterable == <<"NotIterable">>   \* a vector that list(vector) cannot convert
Finite == "1.0"                \* a finite float
NaN == "nan"
PosInf == "inf"
NegInf == "-inf"
NotAFloat == "str"             \* a value float(val) rejects
VectorValues == {Finite, NaN, PosInf, NegInf, NotAFloat}

\* A vector of n finite values.
FiniteVector(n) == [j \in 1..n |-> Finite]

\* The vectors the service may return for a dimension: every length from 0 to
\* dim + 1, all finite or with one other value at any one position.
VectorsFor(dim) ==
    {NotIterable}
    \cup {FiniteVector(n) : n \in 0..(dim + 1)}
    \cup UNION {{[FiniteVector(n) EXCEPT ![p] = x] :
                    p \in 1..n, x \in VectorValues \ {Finite}} : n \in 1..(dim + 1)}

\* The n-th chunk of the argument: distinct documents and hashes.
ChunkAt(n) == [doc_id |-> (n + 1) \div 2, chunk_hash |-> n % 2]

\* f"{chunk.doc_id}:{chunk.chunk_hash}"
ChunkId(chunk) == <<chunk.doc_id, chunk.chunk_hash>>

\* A plausible slip: only the NaN check, no check for infinite values.
ProcessValuesNoInfCheck(vector, j, processed_vector) ==
    LET RECURSIVE Scan(_, _)
        Scan(k, acc) ==
            IF k > Len(vector) THEN acc
            ELSE IF vector[k] = NotAFloat THEN None
            ELSE IF vector[k] = NaN THEN None
            ELSE Scan(k + 1, Append(acc, vector[k]))
    IN  Scan(j, processed_vector)

\* The loop of _process_vector over the values, from position j on.
ProcessValues(vector, j, processed_vector) ==
    LET RECURSIVE Scan(_, _)
        Scan(k, acc) ==
            IF k > Len(vector) THEN acc
            ELSE IF vector[k] = NotAFloat THEN None             \* ValueError, TypeError
            ELSE IF vector[k] = NaN THEN None                   \* float_val != float_val
            ELSE IF vector[k] \in {PosInf, NegInf} THEN None
            ELSE Scan(k + 1, Append(acc, vector[k]))
    IN  Scan(j, processed_vector)

\* EmbeddingService._process_vector(vector, index)
ProcessVector(vector) ==
    IF vector = NotIterable THEN None          \* list(vector) raises: except -> None
    ELSE IF vector = <<>> THEN None
    ELSE ProcessValues(vector, 1, <<>>)

\* The loop of generate over zip(chunks, vectors), from position i on.
RECURSIVE ZipEmbeddings(_, _, _, _)
ZipEmbeddings(chunks, vectors, dim, i) ==
    IF i > Len(chunks) THEN <<>>
    ELSE LET processed_vector == ProcessVector(vectors[i])
             rest == ZipEmbeddings(chunks, vectors, dim, i + 1)
         IN  IF processed_vector = None THEN rest
             ELSE IF Len(processed_vector) # dim THEN rest
             ELSE <<[vector |-> processed_vector,
                     chunk_id |-> ChunkId(chunks[i]),
                     size |-> Len(processed_vector)]>> \o rest

\* The outcome of embeddings.embed_documents(texts): it raises, or it returns
\* a list of vectors.
Raises == [raised |-> TRUE, vectors |-> <<>>]
Returns(vectors) == [raised |-> FALSE, vectors |-> vectors]

\* EmbeddingService.generate(chunks): every exception is caught and answered
\* with [].
Generate(chunks, response, dim) ==
    IF chunks = <<>> THEN <<>>
    ELSE IF response.raised THEN <<>>
    ELSE IF response.vectors = <<>> THEN <<>>
    ELSE IF Len(response.vectors) # Len(chunks) THEN <<>>
    ELSE ZipEmbeddings(chunks, response.vectors, dim, 1)

EmbedIdle ==
    /\ embedding_dim = 0
    /\ gen_chunks = <<>>
    /\ gen_vectors = Raises
    /\ result_embeddings = <<>>
    /\ generated = FALSE

EmbedInit ==
    /\ embedding_dim \in 1..MaxDim
    /\ \E n \in 0..MaxChunks : gen_chunks = [i \in 1..n |-> ChunkAt(i)]
    /\ gen_vectors = Raises
    /\ result_embeddings = <<>>
    /\ generated = FALSE

\* A call of generate in which embed_documents raises.
GenerateRaises ==
    /\ ~generated
    /\ gen_vectors' = Raises
    /\ result_embeddings' = Generate(gen_chunks, Raises, embedding_dim)
    /\ generated' = TRUE
    /\ UNCHANGED <<embedding_dim, gen_chunks, exceptEmbed>>

\* A call of generate in which embed_documents returns a list of vectors, one
\* per chunk or one more or less.
GenerateReturns ==
    /\ ~generated
    /\ \E n \in 0..(Len(gen_chunks) + 1) :
       \E vs \in [1..n -> VectorsFor(embedding_dim)] :
          /\ Len(gen_chunks) - n \in {-1, 0, 1}
          /\ n # Len(gen_chunks) => \A i \in 1..n : vs[i] = FiniteVector(embedding_dim)
          /\ gen_vectors' = Returns(vs)
          /\ result_embeddings' = Generate(gen_chunks, Returns(vs), embedding_dim)
    /\ generated' = TRUE
    /\ UNCHANGED <<embedding_dim, gen_chunks, exceptEmbed>>

EmbedNext == GenerateRaises \/ GenerateReturns


\* ------------------------------------------------------------------------
\* Repository fingerprints and change detection (core/repository_manager.py)
\*
\* A path is the sequence of its parts.  md5 is taken to be free of
\* collisions: Md5(x) stands for the digest of x and nothing else has it.
\* ------------------------------------------------------------------------

EmptyString == <<>>

\* hashlib.md5(x).hexdigest()
Md5(x) == <<"md5", x>>

\* The relative paths of the files a repository may hold.
RelPaths == {<<"a.py">>, <<"b.py">>, <<".c.py">>}

\* Where the repository may be located: /srv/proj or /srv/build/proj.
PlainRoot == <<"srv", "proj">>
BuildRoot == <<"srv", "build", "proj">>

\* The names in the order of Python's string comparison.
NameOrder == <<".c.py", "a.py", "b.py", "bin", "build", "proj", "srv">>
NameRank(name) == CHOOSE i \in DOMAIN NameOrder : NameOrder[i] = name

\* Path.suffix and str.startswith(".") of the names.
Suffix(name) == IF name \in {"a.py", "b.py", ".c.py"} THEN ".py" ELSE ""
StartsWithDot(name) == name \in {".c.py"}

\* RepositoryManager.binary_extensions and .skip_directories, as far as the
\* names of the model go.
HashBinaryExtensions == {".png", ".bin", ".db"}
HashSkipDirectories == {".git", "build", "bin", "dist", "target"}

\* File contents: 1 and 2 are small files, 3 and 4 are files of 60 MB.
Contents == 1..4
NoFile == [content |-> 0, readable |-> FALSE, mtime |-> 0]
SizeMB(content) == IF content \in {1, 2} THEN 1 ELSE 60
\* The content with one byte changed: another content of the same size.
OneByteChanged(content) ==
    CASE content = 1 -> 2 [] content = 2 -> 1 [] content = 3 -> 4 [] content = 4 -> 3

HashSizeCeilingMB == 50

IsFile(fs, rel) == fs[rel].content # 0

\* RepositoryManager._should_skip_file(file_path): file_path is the path as
\* rglob yields it, the repository path included.
ShouldSkipFile(file_path, file) ==
    \/ \E i \in DOMAIN file_path : file_path[i] \in HashSkipDirectories
    \/ Suffix(file_path[Len(file_path)]) \in HashBinaryExtensions
    \/ StartsWithDot(file_path[Len(file_path)])
    \/ SizeMB(file.content) > HashSizeCeilingMB

RECURSIVE PathLess(_, _)
\* p < q for two paths: the comparison of their parts.
PathLess(p, q) ==
    IF p = <<>> THEN q # <<>>
    ELSE IF q = <<>> THEN FALSE
    ELSE IF Head(p) = Head(q) THEN PathLess(Tail(p), Tail(q))
    ELSE NameRank(Head(p)) < NameRank(Head(q))

RECURSIVE InsertPath(_, _)
InsertPath(sorted, p) ==
    IF sorted = <<>> THEN <<p>>
    ELSE IF PathLess(p, Head(sorted)) THEN <<p>> \o sorted
    ELSE <<Head(sorted)>> \o InsertPath(Tail(sorted), p)

RECURSIVE SortedPaths(_)
\* sorted(path.rglob("*"))
SortedPaths(listing) ==
    IF listing = <<>> THEN <<>>
    ELSE InsertPath(SortedPaths(Tail(listing)), Head(listing))

\* The order in which calculate_repository_hash visits the listing.
WalkOrder(listing) == SortedPaths(listing)

RECURSIVE FileHashes(_, _, _)
\* The loop of calculate_repository_hash: the "relative_path:file_hash"
\* entries of the files that are hashed, in the order of the walk.
FileHashes(root, fs, walk) ==
    IF walk = <<>> THEN <<>>
    ELSE LET rel == Head(walk)
             rest == FileHashes(root, fs, Tail(walk))
         IN  IF IsFile(fs, rel) /\ ~ShouldSkipFile(root \o rel, fs[rel])
             THEN IF fs[rel].readable
                  THEN <<<<rel, Md5(fs[rel].content)>>>> \o rest
                  ELSE rest                     \* IOError, OSError: continue
             ELSE rest

\* RepositoryManager.calculate_repository_hash(repository_path); listing is
\* what rglob yields, walk_raises an exception outside the per-file handler.
CalculateRepositoryHash(root, exists, fs, listing, walk_raises) ==
    IF ~exists THEN EmptyString
    ELSE IF walk_raises THEN EmptyString
    ELSE Md5(FileHashes(root, fs, WalkOrder(listing)))

\* The repository sources handed to main: the local repository of the model,
\* wherever it is, and an online one.
LocalSource == "local"
OnlineSource == "https://host/proj"
IsOnline(source) == source = OnlineSource

\* A plausible slip: an error while checking leaves the source out.
NeedsUpdateFailClosed(source, current_hash, stored, db_raises) ==
    IF IsOnline(source) THEN TRUE
    ELSE IF current_hash = EmptyString THEN TRUE
    ELSE IF db_raises THEN FALSE
    ELSE stored # current_hash

\* The body of the loop of check_repository_changes for one source:
\* whether the source is appended to repos_to_update.
NeedsUpdate(source, current_hash, stored, db_raises) ==
    IF IsOnline(source) THEN TRUE
    ELSE IF current_hash = EmptyString THEN TRUE
    ELSE IF db_raises THEN TRUE          \* except Exception: update to be safe
    ELSE stored # current_hash

\* The lists of the files of a repository in every order rglob may yield.
Listings(fs) ==
    LET present == {rel \in RelPaths : IsFile(fs, rel)}
    IN  {l \in SeqsUpTo(present, Cardinality(present)) :
            Len(l) = Cardinality(present) /\ Range(l) = present}

\* RepositoryManager._generate_repo_id and get_repository_hash: the stored
\* fingerprint belongs to the path it was taken for.
GetRepositoryHash(root) ==
    IF hash_calls # <<>> /\ hash_calls[1].root = root THEN stored_hash ELSE None

\* The processor's pre-filter, AdaptiveRepositoryProcessor._should_process_file,
\* as far as the names and sizes of the model go.
ProcessorSkipDirectories == {".git", "build", "dist", "target", "node_modules"}
ProcessorBinaryExtensions == {".png", ".bin", ".db"}
ProcessorCodeSuffixes == {".py", ".js", ".ts", ".java", ".cpp", ".c", ".h"}
ProcessorSizeCeilingMB == 100

ShouldProcessFile(file_path, file) ==
    LET name == file_path[Len(file_path)]
    IN  /\ ~\E i \in DOMAIN file_path : file_path[i] \in ProcessorSkipDirectories
        /\ Suffix(name) \notin ProcessorBinaryExtensions
        /\ ~(StartsWithDot(name) /\ Suffix(name) \notin ProcessorCodeSuffixes)
        /\ SizeMB(file.content) <= ProcessorSizeCeilingMB
        /\ file.content # 0
        /\ file.readable

NoCheck == [done |-> FALSE, current_hash |-> EmptyString, walk_raises |-> FALSE,
            stored |-> None, db_raises |-> FALSE, repos_to_update |-> {}, cleaned |-> {},
            local_repositories |-> {}]

MaxDenied == 1     \* most files of the repository without read permission

HashIdle ==
    /\ disk_root = PlainRoot
    /\ disk_exists = FALSE
    /\ disk_files = [rel \in RelPaths |-> NoFile]
    /\ hash_calls = <<>>
    /\ edits = 0
    /\ stored_hash = None
    /\ check = NoCheck

HashInit ==
    /\ disk_root \in {PlainRoot, BuildRoot}
    /\ disk_exists \in BOOLEAN
    /\ \E cs \in [RelPaths -> {0} \cup Contents], denied \in SUBSET RelPaths :
          /\ ~disk_exists => \A rel \in RelPaths : cs[rel] = 0
          /\ Cardinality(denied) <= MaxDenied
          /\ \A rel \in denied : cs[rel] # 0
          /\ disk_files = [rel \in RelPaths |->
                IF cs[rel] = 0 THEN NoFile
                ELSE [content |-> cs[rel], readable |-> rel \notin denied, mtime |-> 1]]
    /\ hash_calls = <<>>
    /\ edits = 0
    /\ stored_hash = None
    /\ check = NoCheck

\* The first call of calculate_repository_hash, on the repository as it is.
CalculateHash ==
    /\ hash_calls = <<>>
    /\ \E listing \in Listings(disk_files), walk_raises \in BOOLEAN :
          hash_calls' = Append(hash_calls,
              [root |-> disk_root, files |-> disk_files, walk_raises |-> walk_raises,
               digest |-> CalculateRepositoryHash(disk_root, disk_exists, disk_files,
                                                  listing, walk_raises)])
    /\ UNCHANGED <<diskVars, edits, stored_hash, check, exceptHash>>

\* update_repository_hash: the fingerprint of the first call becomes the stored
\* one, unless it is empty.
StoreHash ==
    /\ Len(hash_calls) = 1
    /\ hash_calls[1].digest # EmptyString
    /\ stored_hash = None
    /\ stored_hash' = hash_calls[1].digest
    /\ UNCHANGED <<diskVars, hash_calls, edits, check, exceptHash>>

MaxEdits == 1      \* most changes to the repository between two fingerprints

\* The repository changes between the first fingerprint and the check.
CanEdit == Len(hash_calls) = 1 /\ ~check.done /\ edits < MaxEdits

\* One byte of one file changes.
ModifyFile ==
    /\ CanEdit
    /\ \E rel \in RelPaths :
          /\ IsFile(disk_files, rel)
          /\ disk_files' = [disk_files EXCEPT ![rel].content = OneByteChanged(@)]
    /\ edits' = edits + 1
    /\ UNCHANGED <<disk_root, disk_exists, hash_calls, stored_hash, check, exceptHash>>

\* Two files change places: each path gets the other file.
SwapFiles ==
    /\ CanEdit
    /\ \E p \in RelPaths, q \in RelPaths :
          /\ p # q
          /\ IsFile(disk_files, p)
          /\ IsFile(disk_files, q)
          /\ disk_files' = [disk_files EXCEPT ![p] = disk_files[q], ![q] = disk_files[p]]
    /\ edits' = edits + 1
    /\ UNCHANGED <<disk_root, disk_exists, hash_calls, stored_hash, check, exceptHash>>

\* touch: the modification time of a file changes, its content does not.
TouchFile ==
    /\ CanEdit
    /\ \E rel \in RelPaths :
          /\ IsFile(disk_files, rel)
          /\ disk_files' = [disk_files EXCEPT ![rel].mtime = 3 - @]
    /\ edits' = edits + 1
    /\ UNCHANGED <<disk_root, disk_exists, hash_calls, stored_hash, check, exceptHash>>

\* chmod: the read permission of a file is taken away or given back.
ChmodFile ==
    /\ CanEdit
    /\ \E rel \in RelPaths :
          /\ IsFile(disk_files, rel)
          /\ disk_files' = [disk_files EXCEPT ![rel].readable = ~@]
    /\ edits' = edits + 1
    /\ UNCHANGED <<disk_root, disk_exists, hash_calls, stored_hash, check, exceptHash>>

\* The repository directory is moved below another directory, or back.
MoveRoot ==
    /\ CanEdit
    /\ disk_exists
    /\ disk_root' = IF disk_root = PlainRoot THEN BuildRoot ELSE PlainRoot
    /\ edits' = edits + 1
    /\ UNCHANGED <<disk_exists, disk_files, hash_calls, stored_hash, check, exceptHash>>

\* check_repository_changes(repositories): the sources to update.
CheckRepositoryChanges(repositories, current_hash, stored, db_raises) ==
    {source \in repositories : NeedsUpdate(source, current_hash, stored, db_raises)}

\* The update-mode part of main for a local and an online repository: the
\* local one is checked, the online one and the changed local one are cleaned
\* up, and the changed local one is handed to ETLWorkflow.run.
\* get_repository_hash may raise.
UpdateModeCheck ==
    /\ Len(hash_calls) = 1
    /\ ~check.done
    /\ \E listing \in Listings(disk_files), walk_raises \in BOOLEAN, db_raises \in BOOLEAN :
          LET current_hash == CalculateRepositoryHash(disk_root, disk_exists, disk_files,
                                                      listing, walk_raises)
              stored == GetRepositoryHash(disk_root)
              local_repos_to_update ==
                  CheckRepositoryChanges({LocalSource}, current_hash, stored, db_raises)
          IN  check' = [done |-> TRUE, current_hash |-> current_hash,
                        walk_raises |-> walk_raises, stored |-> stored,
                        db_raises |-> db_raises,
                        repos_to_update |->
                            CheckRepositoryChanges({LocalSource, OnlineSource},
                                                   current_hash, stored, db_raises),
                        cleaned |-> {OnlineSource} \cup local_repos_to_update,
                        local_repositories |-> local_repos_to_update]
    /\ UNCHANGED <<diskVars, hash_calls, edits, stored_hash, exceptHash>>

HashNext ==
    \/ CalculateHash
    \/ StoreHash
    \/ ModifyFile
    \/ SwapFiles
    \/ TouchFile
    \/ ChmodFile
    \/ MoveRoot
    \/ UpdateModeCheck


\* ------------------------------------------------------------------------
\* QdrantBatchWriter: sqlite_lock and qdrant_lock
\* ------------------------------------------------------------------------

NumThreads == 2    \* threads that call the writer
Threads == 1..NumThreads
NoThread == 0

\* One step of a thread in a writer operation: entering or leaving the
\* "with self.<lock>:" block of the operation, or the statements that modify
\* a store: the relational store ("sqlite") or the vector store ("qdrant").
Acquire(lock) == <<"acquire", lock>>
Release(lock) == <<"release", lock>>
Write(store) == <<"write", store>>
SqliteSection == <<Acquire("sqlite_lock"), Write("sqlite"), Release("sqlite_lock")>>
QdrantSection == <<Acquire("qdrant_lock"), Write("qdrant"), Release("qdrant_lock")>>

\* A plausible slip: the vectors are deleted inside the sqlite_lock block.
DeleteRepositoryDataNested(qdrant_client) ==
    IF qdrant_client
    THEN <<Acquire("sqlite_lock"), Write("sqlite")>> \o QdrantSection
             \o <<Release("sqlite_lock")>>
    ELSE SqliteSection

\* delete_repository_data: the sqlite_lock block, then, with a client, the
\* qdrant_lock block.
DeleteRepositoryDataLocks(qdrant_client) ==
    IF qdrant_client THEN SqliteSection \o QdrantSection ELSE SqliteSection

\* A plausible slip: the upsert without the lock.
WriteEmbeddingsUnlocked(qdrant_client, has_embeddings) ==
    IF qdrant_client /\ has_embeddings THEN <<Write("qdrant")>> ELSE <<>>

\* write_embeddings_to_qdrant: returns before the lock without embeddings or
\* without a client.
WriteEmbeddingsLocks(qdrant_client, has_embeddings) ==
    IF qdrant_client /\ has_embeddings THEN QdrantSection ELSE <<>>

\* write_repository_batch: _write_sqlite_batch, then _write_qdrant_batch, which
\* calls write_embeddings_to_qdrant; nothing without documents.
WriteRepositoryBatchLocks(qdrant_client, has_documents, has_embeddings) ==
    IF ~has_documents THEN <<>>
    ELSE SqliteSection \o WriteEmbeddingsLocks(qdrant_client, has_embeddings)

WriterOperations ==
    {"delete_repository_data", "write_documents_to_sqlite", "write_chunks_to_sqlite",
     "write_embeddings_to_qdrant", "update_repository_metadata",
     "store_repository_hash", "write_repository_batch"}

\* The lock steps of a writer operation.
LockProgram(op, qdrant_client, has_documents, has_embeddings) ==
    CASE op = "delete_repository_data" -> DeleteRepositoryDataLocks(qdrant_client)
      [] op = "write_documents_to_sqlite" -> IF has_documents THEN SqliteSection ELSE <<>>
      [] op = "write_chunks_to_sqlite" -> IF has_documents THEN SqliteSection ELSE <<>>
      [] op = "write_embeddings_to_qdrant" ->
            WriteEmbeddingsLocks(qdrant_client, has_embeddings)
      [] op = "update_repository_metadata" -> SqliteSection
      [] op = "store_repository_hash" -> SqliteSection
      [] op = "write_repository_batch" ->
            WriteRepositoryBatchLocks(qdrant_client, has_documents, has_embeddings)

Holder(lock) == IF lock = "sqlite_lock" THEN sqlite_lock ELSE qdrant_lock

LockIdle ==
    /\ sqlite_lock = NoThread
    /\ qdrant_lock = NoThread
    /\ lock_op = <<>>
    /\ lock_program = <<>>

\* After __init__: both locks free, no thread in the writer.
LockInit ==
    /\ sqlite_lock = NoThread
    /\ qdrant_lock = NoThread
    /\ lock_op = [t \in Threads |-> "none"]
    /\ lock_program = [t \in Threads |-> <<>>]

\* A thread that is in no operation calls one.
CallWriter(t) ==
    /\ lock_program[t] = <<>>
    /\ \E op \in WriterOperations, qdrant_client \in BOOLEAN,
          has_documents \in BOOLEAN, has_embeddings \in BOOLEAN :
          LET program == LockProgram(op, qdrant_client, has_documents, has_embeddings)
          IN  /\ lock_program' = [lock_program EXCEPT ![t] = program]
              /\ lock_op' = [lock_op EXCEPT ![t] = IF program = <<>> THEN "none" ELSE op]
    /\ UNCHANGED <<sqlite_lock, qdrant_lock, exceptLock>>

\* Lock.acquire(): the thread enters the block when the lock is free, and
\* waits otherwise, also when it holds the lock itself.
AcquireLock(t) ==
    /\ lock_program[t] # <<>>
    /\ Head(lock_program[t])[1] = "acquire"
    /\ LET lock == Head(lock_program[t])[2]
       IN  /\ Holder(lock) = NoThread
           /\ sqlite_lock' = IF lock = "sqlite_lock" THEN t ELSE sqlite_lock
           /\ qdrant_lock' = IF lock = "qdrant_lock" THEN t ELSE qdrant_lock
    /\ lock_program' = [lock_program EXCEPT ![t] = Tail(@)]
    /\ UNCHANGED <<lock_op, exceptLock>>

\* The statements inside a "with" block that modify the store.
WriteStore(t) ==
    /\ lock_program[t] # <<>>
    /\ Head(lock_program[t])[1] = "write"
    /\ lock_program' = [lock_program EXCEPT ![t] = Tail(@)]
    /\ UNCHANGED <<sqlite_lock, qdrant_lock, lock_op, exceptLock>>

\* The end of a "with" block, reached normally or by an exception. An
\* exception of the SQLite block leaves the operation; one of the Qdrant block
\* is caught inside the block.
ReleaseLock(t) ==
    /\ lock_program[t] # <<>>
    /\ Head(lock_program[t])[1] = "release"
    /\ LET lock == Head(lock_program[t])[2]
       IN  /\ sqlite_lock' = IF lock = "sqlite_lock" THEN NoThread ELSE sqlite_lock
           /\ qdrant_lock' = IF lock = "qdrant_lock" THEN NoThread ELSE qdrant_lock
           /\ \E raises \in BOOLEAN :
                 LET rest == IF raises /\ lock = "sqlite_lock"
                             THEN <<>> ELSE Tail(lock_program[t])
                 IN  /\ lock_program' = [lock_program EXCEPT ![t] = rest]
                     /\ lock_op' = [lock_op EXCEPT ![t] =
                                        IF rest = <<>> THEN "none" ELSE @]
    /\ UNCHANGED exceptLock

LockNext ==
    \E t \in Threads :
        \/ CallWriter(t)
        \/ AcquireLock(t)
        \/ WriteStore(t)
        \/ ReleaseLock(t)

\* ------------------------------------------------------------------------
\* QdrantBatchWriter: the relational store and the vector store
\* ------------------------------------------------------------------------

RepoId == "repo_1"          \* the repository that is ingested
OtherRepoId == "repo_2"     \* another repository
RepoIds == {RepoId, OtherRepoId}

\* The texts a chunk may have. The content of a file is the sequence of the
\* texts the splitter cuts it into.
Texts == {"x", "y"}
TextIndex(text) == IF text = "x" THEN 0 ELSE 1

\* Document.create(content, file_path, ...) with doc_uuid from uuid4().
DocumentCreate(doc_uuid, file_path, content) ==
    [doc_uuid |-> doc_uuid, file_path |-> file_path, content |-> content,
     file_hash |-> Md5(content)]

\* Chunk.from_document(doc, content, chunk_num)
ChunkFromDocument(doc, content, chunk_num) ==
    [content |-> content, doc_id |-> doc.doc_uuid, chunk_hash |-> Md5(content),
     metadata |-> [source_file |-> doc.file_path, chunk_num |-> chunk_num]]

PreviewLen == 1    \* the 500 characters of content_preview, in texts

\* doc.content[:500] + "..." if len(doc.content) > 500 else doc.content
ContentPreview(content) ==
    IF Len(content) > PreviewLen
    THEN SubSeq(content, 1, PreviewLen) \o <<"...">>
    ELSE content

\* The tuple write_documents_to_sqlite binds for a document.
DocumentRow(doc, repo_id) ==
    [id |-> doc.doc_uuid, repo_id |-> repo_id, file_path |-> doc.file_path,
     file_hash |-> doc.file_hash, content_preview |-> ContentPreview(doc.content)]

\* The tuple write_chunks_to_sqlite binds for a chunk.
ChunkRow(chunk, repo_id) ==
    [id |-> ChunkId(chunk), doc_id |-> chunk.doc_id, repo_id |-> repo_id,
     chunk_hash |-> chunk.chunk_hash, content |-> chunk.content,
     metadata |-> chunk.metadata]

\* A plausible slip: a plain INSERT into a table without a primary key.
InsertKeepingOld(table, row) == table \cup {row}

\* INSERT OR REPLACE of one row into a table whose primary key is id.
InsertOrReplace(table, row) == {r \in table : r.id # row.id} \cup {row}

RECURSIVE ExecuteMany(_, _)
\* conn.executemany("INSERT OR REPLACE ...", rows): the rows in their order.
ExecuteMany(table, rows) ==
    IF rows = <<>> THEN table
    ELSE ExecuteMany(InsertOrReplace(table, Head(rows)), Tail(rows))

RECURSIVE DocumentData(_, _)
\* The loop of write_documents_to_sqlite: a document with an empty file_hash
\* is left out.
DocumentData(docs, repo_id) ==
    IF docs = <<>> THEN <<>>
    ELSE IF Head(docs).file_hash = EmptyString THEN DocumentData(Tail(docs), repo_id)
    ELSE <<DocumentRow(Head(docs), repo_id)>> \o DocumentData(Tail(docs), repo_id)

\* write_documents_to_sqlite(documents, repo_id) when it does not raise.
WriteDocumentsToSqlite(table, docs, repo_id) ==
    ExecuteMany(table, DocumentData(docs, repo_id))

\* write_chunks_to_sqlite(chunks, repo_id) when it does not raise.
WriteChunksToSqlite(table, cs, repo_id) ==
    ExecuteMany(table, [i \in DOMAIN cs |-> ChunkRow(cs[i], repo_id)])

UpsertBatchSize == 2   \* batch_size = 100 of write_embeddings_to_qdrant, scaled
PointIdSpace == 3      \* the 2**31 point ids, scaled

RepoCode(repo_id) == IF repo_id = RepoId THEN 0 ELSE 1

MaxSeed == 1           \* largest seed of the str hash of a process
Seeds == 0..MaxSeed

\* hash(f"{repo_id}_{chunk_id}") in a process whose str hash has this seed:
\* the hash of a str is salted with a seed the interpreter draws at its start.
StrHash(seed, repo_id, chunk_id) ==
    seed + RepoCode(repo_id) + 2 * chunk_id[1] + TextIndex(chunk_id[2][2])

\* abs(hash(f"{repo_id}_{emb.chunk_id}")) % (2**31) in the running process: a
\* function of the two ids into the point ids, under which different chunks
\* may meet.
PointId(repo_id, chunk_id) == StrHash(hash_seed, repo_id, chunk_id) % PointIdSpace

\* The rows of a repository in a table or in the collection.
RowsOf(table, repo_id) == {r \in table : r.repo_id = repo_id}

\* A plausible slip: a DELETE that matches no row.
DeleteWhereRepoNothing(table, repo_id) == table

\* DELETE FROM <table> WHERE repo_id = ?, and the filtered delete of Qdrant.
DeleteWhereRepo(table, repo_id) == table \ RowsOf(table, repo_id)

\* The PointStruct write_embeddings_to_qdrant builds for an embedding.
PointStruct(emb, repo_id) ==
    [id |-> PointId(repo_id, emb.chunk_id), vector |-> emb.vector,
     chunk_id |-> emb.chunk_id, repo_id |-> repo_id]

RECURSIVE UpsertBatches(_, _, _, _)
\* The loop over the points in steps of batch_size, from position i on; an
\* upsert in failed raises and is skipped.
UpsertBatches(collection, point_list, failed, i) ==
    IF i > Len(point_list) THEN collection
    ELSE LET last == IF i + UpsertBatchSize - 1 < Len(point_list)
                     THEN i + UpsertBatchSize - 1 ELSE Len(point_list)
             after == IF i \in failed THEN collection
                      ELSE ExecuteMany(collection, SubSeq(point_list, i, last))
         IN  UpsertBatches(after, point_list, failed, i + UpsertBatchSize)

\* A plausible slip: the first upsert that raises ends the loop.
WriteEmbeddingsStopping(collection, embeddings, repo_id, failed) ==
    LET valid_embeddings == SelectSeq(embeddings, LAMBDA emb : emb.vector # <<>>)
        point_list == [i \in DOMAIN valid_embeddings |->
                          PointStruct(valid_embeddings[i], repo_id)]
        stop == IF failed = {} THEN Len(point_list)
                ELSE (CHOOSE i \in failed : \A j \in failed : i <= j) - 1
    IN  UpsertBatches(collection, SubSeq(point_list, 1, stop), {}, 1)

\* write_embeddings_to_qdrant(embeddings, repo_id, repo_source)
WriteEmbeddingsToQdrant(collection, embeddings, repo_id, failed) ==
    LET valid_embeddings == SelectSeq(embeddings, LAMBDA emb : emb.vector # <<>>)
    IN  UpsertBatches(collection,
                      [i \in DOMAIN valid_embeddings |->
                          PointStruct(valid_embeddings[i], repo_id)],
                      failed, 1)

\* Direct calls of the writer: the documents and chunks a caller may hand over.
MaxDocId == 1      \* largest doc_uuid of a directly written document

DocumentInputs ==
    {DocumentCreate(doc_uuid, 1, <<text>>) : doc_uuid \in 1..MaxDocId, text \in Texts}
    \cup {[DocumentCreate(doc_uuid, 1, <<"y">>) EXCEPT !.file_hash = EmptyString] :
            doc_uuid \in 1..MaxDocId}

ChunkInputs(chunk_num) ==
    {ChunkFromDocument(DocumentCreate(doc_uuid, 1, <<text>>), text, chunk_num) :
        doc_uuid \in 1..MaxDocId, text \in Texts}

\* One or two of them in a list.
OneOrTwo(S, T) == {<<a>> : a \in S} \cup {<<a, b>> : a \in S, b \in T}

NoWrite == [op |-> "none", args |-> <<>>, repo_id |-> RepoId]

StoreIdle ==
    /\ document_rows = {}
    /\ chunk_rows = {}
    /\ repository_rows = {}
    /\ points = {}
    /\ last_write = NoWrite
    /\ hash_seed = 0

\* The store after bootstrap: empty tables, an empty collection.
StoreInit ==
    /\ document_rows = {}
    /\ chunk_rows = {}
    /\ repository_rows = {}
    /\ points = {}
    /\ last_write = NoWrite
    /\ hash_seed \in Seeds

\* A call of write_documents_to_sqlite; when it raises the transaction is
\* rolled back.
CallWriteDocuments ==
    /\ \E docs \in OneOrTwo(DocumentInputs, DocumentInputs), repo_id \in RepoIds,
          raises \in BOOLEAN :
          IF raises
          THEN UNCHANGED <<document_rows, last_write>>
          ELSE /\ document_rows' = WriteDocumentsToSqlite(document_rows, docs, repo_id)
               /\ last_write' = [op |-> "documents", args |-> docs, repo_id |-> repo_id]
    /\ UNCHANGED <<chunk_rows, repository_rows, points, hash_seed, ingestVars, exceptStore>>

\* A call of write_chunks_to_sqlite; when it raises the transaction is rolled
\* back.
CallWriteChunks ==
    /\ \E cs \in OneOrTwo(ChunkInputs(0), ChunkInputs(1)), repo_id \in RepoIds,
          raises \in BOOLEAN :
          IF raises
          THEN UNCHANGED <<chunk_rows, last_write>>
          ELSE /\ chunk_rows' = WriteChunksToSqlite(chunk_rows, cs, repo_id)
               /\ last_write' = [op |-> "chunks", args |-> cs, repo_id |-> repo_id]
    /\ UNCHANGED <<document_rows, repository_rows, points, hash_seed, ingestVars, exceptStore>>

\* The embeddings a caller may hand over: one per chunk, with a valid vector.
EmbeddingInputs(chunk_num) ==
    {[chunk_id |-> ChunkId(chunk), vector |-> FiniteVector(MaxDim)] :
        chunk \in ChunkInputs(chunk_num)}

\* A call of write_embeddings_to_qdrant; whatever goes wrong in it is logged.
CallWriteEmbeddings ==
    /\ \E embeddings \in OneOrTwo(EmbeddingInputs(0), EmbeddingInputs(1)),
          repo_id \in RepoIds, raises \in BOOLEAN :
          /\ points' = WriteEmbeddingsToQdrant(points, embeddings, repo_id,
                                               IF raises THEN {1} ELSE {})
          /\ last_write' = IF raises THEN last_write
                           ELSE [op |-> "embeddings", args |-> embeddings,
                                 repo_id |-> repo_id]
    /\ UNCHANGED <<document_rows, chunk_rows, repository_rows, hash_seed, ingestVars,
                   exceptStore>>

\* The process ends and main is started again: the interpreter draws the
\* seed of its str hash; the stores are on disk and stay.
StartProcess ==
    /\ hash_seed' \in Seeds
    /\ last_write' = NoWrite
    /\ UNCHANGED <<document_rows, chunk_rows, repository_rows, points, ingestVars,
                   exceptStore>>

WriterNext ==
    \/ CallWriteDocuments
    \/ CallWriteChunks

PointsNext ==
    \/ CallWriteEmbeddings
    \/ StartProcess

\* ------------------------------------------------------------------------
\* AdaptiveFileClassifier: the size tiers
\* ------------------------------------------------------------------------

MaxPaths == 2          \* most paths handed to classify_files

MB == 1048576          \* 1024**2

SMALL == "small"
MEDIUM == "medium"
LARGE == "large"
EXTRA_LARGE == "xlarge"
FileSize == {SMALL, MEDIUM, LARGE, EXTRA_LARGE}

\* The sizes in bytes a file may have: the tier boundaries, the ceiling of
\* the processor's pre-filter and their neighbours.
SizesInBytes ==
    {0, 1, MB - 1, MB, MB + 1, 50 * MB - 1, 50 * MB, 50 * MB + 1,
     100 * MB - 1, 100 * MB, 100 * MB + 1,
     500 * MB - 1, 500 * MB, 500 * MB + 1}

\* A plausible slip: the boundaries belong to the tier below.
GetSizeCategoryExclusive(size_bytes) ==
    IF size_bytes <= 1 * MB THEN SMALL
    ELSE IF size_bytes <= 50 * MB THEN MEDIUM
    ELSE IF size_bytes <= 500 * MB THEN LARGE
    ELSE EXTRA_LARGE

\* _get_size_category(size_bytes): size_mb = size_bytes / 1024**2 is exact
\* in floating point, so size_mb < n is size_bytes < n * 1024**2.
GetSizeCategory(size_bytes) ==
    IF size_bytes < 1 * MB THEN SMALL
    ELSE IF size_bytes < 50 * MB THEN MEDIUM
    ELSE IF size_bytes < 500 * MB THEN LARGE
    ELSE EXTRA_LARGE

RECURSIVE ClassifyFiles(_, _)
\* classify_files(file_paths): a path that is no file is left out, every
\* other one is appended to the list of its tier.
ClassifyFiles(paths, lists) ==
    IF paths = <<>> THEN lists
    ELSE LET path == Head(paths)
             size_category == GetSizeCategory(path.size_bytes)
         IN  IF ~path.is_file THEN ClassifyFiles(Tail(paths), lists)
             ELSE ClassifyFiles(Tail(paths),
                      [lists EXCEPT ![size_category] = Append(@, path)])

\* classifications = {size: [] for size in FileSize}
EmptyClassifications == [size \in FileSize |-> <<>>]

\* The paths of a call: path number i has a size and may have stopped being
\* a file since it was listed.
PathInputs(n) ==
    {[i \in 1..n |-> [path |-> i, size_bytes |-> sizes[i], is_file |-> is_files[i]]] :
        sizes \in [1..n -> SizesInBytes], is_files \in [1..n -> BOOLEAN]}

ClassifyIdle ==
    /\ file_paths = <<>>
    /\ classifications = EmptyClassifications
    /\ classified = FALSE

ClassifyInit ==
    /\ file_paths \in UNION {PathInputs(n) : n \in 0..MaxPaths}
    /\ classifications = EmptyClassifications
    /\ classified = FALSE

\* The call of classify_files.
Classify ==
    /\ ~classified
    /\ classifications' = ClassifyFiles(file_paths, EmptyClassifications)
    /\ classified' = TRUE
    /\ UNCHANGED <<file_paths, exceptClassify>>

ClassifyNext == Classify

\* A plausible slip: the pre-filter has no ceiling.
SizeAdmittedNoCeiling(file_size) == file_size # 0

\* The size checks of _should_process_file: a file over 100 MB and an empty
\* file are left out.
SizeAdmitted(file_size) ==
    /\ ~(file_size > ProcessorSizeCeilingMB * MB)
    /\ file_size # 0

\* file_paths of process_repository_adaptive: the listed paths that are
\* files and pass the pre-filter (here: its size checks).
ProcessableFiles(all_files) ==
    SelectSeq(all_files, LAMBDA f : f.is_file /\ SizeAdmitted(f.size_bytes))

\* process_repository_adaptive from the listing to the choice of the
\* strategies: the files that pass the pre-filter are classified; the lists
\* SMALL and MEDIUM go to the batches, LARGE to the chunked stream and
\* EXTRA_LARGE to the memory-mapped stream.
FilterAndClassify ==
    /\ ~classified
    /\ classifications' = ClassifyFiles(ProcessableFiles(file_paths), EmptyClassifications)
    /\ classified' = TRUE
    /\ UNCHANGED <<file_paths, exceptClassify>>

TiersNext == FilterAndClassify

\* ------------------------------------------------------------------------
\* AdaptiveRepositoryProcessor: ingestion of a repository
\* ------------------------------------------------------------------------

MaxRepoFiles == 2      \* most files of the repository
MaxFileChunks == 2     \* most chunks the splitter cuts a file into
MaxEvents == 3         \* most ingestions and deletions of the repository
MaxInvalid == 1        \* most invalid vectors among those of a batch
MaxFailures == 1       \* most failures of a store or of the service

EmbedBatchSize == 2    \* batch_size = 50 of _process_small_medium_files, scaled

\* The contents a file may have: one to MaxFileChunks chunk texts, the first
\* of them "x".
FileContents ==
    {c \in SeqsUpTo(Texts, MaxFileChunks) : c # <<>> /\ c[1] = "x"}

\* The documents a batch loads: one per file, each with a fresh doc_uuid.
LoadDocuments(file_numbers, contents, first_uuid) ==
    [i \in DOMAIN file_numbers |->
        DocumentCreate(first_uuid + i - 1, file_numbers[i], contents[file_numbers[i]])]

\* list(self.chunk_generator.process(doc)): one chunk per text of the file.
ProcessDocument(doc) ==
    [j \in DOMAIN doc.content |-> ChunkFromDocument(doc, doc.content[j], j - 1)]

\* all_chunks of a batch.
AllChunks(docs) == Concat([i \in DOMAIN docs |-> ProcessDocument(docs[i])])

\* The vector the service returns for a chunk: a valid one or one with a NaN.
VectorOf(is_valid) ==
    IF is_valid THEN FiniteVector(MaxDim)
    ELSE [FiniteVector(MaxDim) EXCEPT ![1] = NaN]

RECURSIVE BatchEmbeddings(_, _, _, _)
\* The loop over all_chunks in steps of batch_size, from position i on: the
\* embeddings generate returns for each sub-batch; the calls in failed return
\* nothing.
BatchEmbeddings(all_chunks, valid, failed, i) ==
    IF i > Len(all_chunks) THEN <<>>
    ELSE LET last == IF i + EmbedBatchSize - 1 < Len(all_chunks)
                     THEN i + EmbedBatchSize - 1 ELSE Len(all_chunks)
             chunk_batch == SubSeq(all_chunks, i, last)
             response == IF i \in failed THEN Raises
                         ELSE Returns([j \in 1..(last - i + 1) |-> VectorOf(valid[i + j - 1])])
         IN  Generate(chunk_batch, response, MaxDim)
                 \o BatchEmbeddings(all_chunks, valid, failed, i + EmbedBatchSize)

\* A plausible slip: only the chunks that got an embedding are written.
ChunksWithEmbedding(all_chunks, embeddings) ==
    SelectSeq(all_chunks,
              LAMBDA chunk : \E i \in DOMAIN embeddings :
                                embeddings[i].chunk_id = ChunkId(chunk))

\* The chunks _write_batch_to_database hands to write_chunks_to_sqlite.
ChunksToWrite(all_chunks, embeddings) == all_chunks

\* What may go wrong with a batch or a streamed file: a file that cannot be
\* loaded, a write of the relational store that raises, an embedding call
\* that fails, an upsert that raises.
Failures == {"none", "load", "documents", "chunks", "generate", "upsert"}

NoBatch == [done |-> FALSE, streamed |-> FALSE, all_chunks |-> <<>>, valid |-> <<>>,
            failure |-> "none", fails_at |-> 1]
NoRun == [pc |-> "idle", todo |-> <<>>, large |-> <<>>, total_files |-> 0,
          total_chunks |-> 0, clean |-> TRUE, failed |-> FALSE]

\* The two stores as a call finds them; raised tells whether it raised.
StoreNow ==
    [document_rows |-> document_rows, chunk_rows |-> chunk_rows, points |-> points,
     raised |-> FALSE]

\* A plausible slip: the chunks are written before the documents.
WriteBatchChunksFirst(store, documents, all_chunks, embeddings, repo_id, failure) ==
    LET chunks_written ==
            [store EXCEPT !.chunk_rows =
                WriteChunksToSqlite(@, all_chunks, repo_id)]
    IN  IF failure = "chunks" THEN [store EXCEPT !.raised = TRUE]
        ELSE IF failure = "documents" THEN [chunks_written EXCEPT !.raised = TRUE]
        ELSE [chunks_written EXCEPT
                !.document_rows = WriteDocumentsToSqlite(@, documents, repo_id),
                !.points = WriteEmbeddingsToQdrant(@, embeddings, repo_id,
                               IF failure = "upsert" THEN {1} ELSE {})]

\* _write_batch_to_database(documents, chunks, embeddings, repo_id, ...):
\* the documents, then the chunks, then the embeddings; an exception of the
\* first two writes is raised again, after what was committed before it.
WriteBatchToDatabase(store, documents, all_chunks, embeddings, repo_id, failure) ==
    LET documents_written ==
            [store EXCEPT !.document_rows =
                WriteDocumentsToSqlite(@, documents, repo_id)]
    IN  IF failure = "documents" THEN [store EXCEPT !.raised = TRUE]
        ELSE IF failure = "chunks" THEN [documents_written EXCEPT !.raised = TRUE]
        ELSE [documents_written EXCEPT
                !.chunk_rows = WriteChunksToSqlite(@,
                                   ChunksToWrite(all_chunks, embeddings), repo_id),
                !.points = WriteEmbeddingsToQdrant(@, embeddings, repo_id,
                               IF failure = "upsert" THEN {1} ELSE {})]

StreamBatchSize == 1   \* embedding_batch_size = 50 of _stream_process_file, scaled

RECURSIVE StreamSubBatches(_, _, _, _, _, _, _)
\* The loop of _stream_process_file over doc_chunks in steps of
\* embedding_batch_size, from position i on: generate, write_chunks_to_sqlite,
\* write_embeddings_to_qdrant. The failure strikes the sub-batch that starts
\* at fails_at; a chunk write that raises ends the loop.
StreamSubBatches(store, doc_chunks, valid, repo_id, failure, fails_at, i) ==
    IF i > Len(doc_chunks) THEN store
    ELSE LET last == IF i + StreamBatchSize - 1 < Len(doc_chunks)
                     THEN i + StreamBatchSize - 1 ELSE Len(doc_chunks)
             batch_chunks == SubSeq(doc_chunks, i, last)
             response == IF failure = "generate" /\ i = fails_at THEN Raises
                         ELSE Returns([j \in 1..(last - i + 1) |-> VectorOf(valid[i + j - 1])])
             batch_embeddings == Generate(batch_chunks, response, MaxDim)
         IN  IF failure = "chunks" /\ i = fails_at
             THEN [store EXCEPT !.raised = TRUE]
             ELSE StreamSubBatches(
                      [store EXCEPT
                          !.chunk_rows = WriteChunksToSqlite(@, batch_chunks, repo_id),
                          !.points = WriteEmbeddingsToQdrant(@, batch_embeddings, repo_id,
                                         IF failure = "upsert" /\ i = fails_at
                                         THEN {1} ELSE {})],
                      doc_chunks, valid, repo_id, failure, fails_at, i + StreamBatchSize)

\* _stream_process_file from the document on: the document is written, then
\* its chunks and embeddings sub-batch by sub-batch.
StreamProcessFile(store, doc, valid, repo_id, failure, fails_at) ==
    IF failure = "documents" THEN [store EXCEPT !.raised = TRUE]
    ELSE StreamSubBatches(
             [store EXCEPT !.document_rows = WriteDocumentsToSqlite(@, <<doc>>, repo_id)],
             ProcessDocument(doc), valid, repo_id, failure, fails_at, 1)

\* The row update_repository_metadata binds; content_hash is not among its
\* columns and becomes NULL.
RepositoryRow(repo_id, total_files, total_chunks) ==
    [id |-> repo_id, repo_id |-> repo_id, total_files |-> total_files,
     total_chunks |-> total_chunks, content_hash |-> None]

\* A plausible slip: the counts are added to those of the stored row.
UpdateRepositoryMetadataAdding(table, repo_id, total_files, total_chunks) ==
    LET old == {r \in table : r.id = repo_id}
        before == IF old = {} THEN RepositoryRow(repo_id, 0, 0) ELSE CHOOSE r \in old : TRUE
    IN  InsertOrReplace(table,
            RepositoryRow(repo_id, before.total_files + total_files,
                          before.total_chunks + total_chunks))

\* update_repository_metadata(repo_id, repository, total_files, total_chunks)
\* when it does not raise: INSERT OR REPLACE INTO repositories.
UpdateRepositoryMetadata(table, repo_id, total_files, total_chunks) ==
    InsertOrReplace(table, RepositoryRow(repo_id, total_files, total_chunks))

\* A plausible slip: no rollback, what was deleted before the failing
\* statement stays deleted.
RelationalDeleteNoRollback(tables, repo_id, fails_at) ==
    [chunk_rows |-> IF fails_at = 1 THEN tables.chunk_rows
                    ELSE DeleteWhereRepo(tables.chunk_rows, repo_id),
     document_rows |-> IF fails_at \in {1, 2} THEN tables.document_rows
                       ELSE DeleteWhereRepo(tables.document_rows, repo_id),
     repository_rows |-> IF fails_at \in {1, 2, 3} THEN tables.repository_rows
                         ELSE DeleteWhereRepo(tables.repository_rows, repo_id)]

\* The relational part of delete_repository_data: DELETE FROM chunks, FROM
\* documents, FROM repositories, commit; fails_at is the statement that
\* raises (0: none), and then the transaction is rolled back.
RelationalDelete(tables, repo_id, fails_at) ==
    IF fails_at # 0 THEN tables
    ELSE [chunk_rows |-> DeleteWhereRepo(tables.chunk_rows, repo_id),
          document_rows |-> DeleteWhereRepo(tables.document_rows, repo_id),
          repository_rows |-> DeleteWhereRepo(tables.repository_rows, repo_id)]

\* A plausible slip: the vectors are deleted whether or not the relational
\* delete went through.
VectorDeleteUnconditional(collection, repo_id, outcome) ==
    IF outcome = "qdrant_fails" THEN collection
    ELSE DeleteWhereRepo(collection, repo_id)

\* The vector part of delete_repository_data: not reached when the relational
\* part raised; a delete that fails is logged and changes nothing.
VectorDelete(collection, repo_id, outcome) ==
    IF outcome = "ok" THEN DeleteWhereRepo(collection, repo_id) ELSE collection

\* The rows of the other repository, written before.
OtherDocument == DocumentCreate(0, 1, <<"x">>)
OtherChunk == ChunkFromDocument(OtherDocument, "x", 0)

IngestIdle ==
    /\ repo_files = <<>>
    /\ file_tier = <<>>
    /\ next_uuid = 1
    /\ run = NoRun
    /\ last_batch = NoBatch
    /\ log = <<>>

\* A repository on disk that was never ingested, each of its files small
\* enough for a batch or large, and a store that holds another repository. No
\* file is EXTRA_LARGE: _should_process_file leaves out what is over 100 MB.
IngestInit ==
    /\ repo_files \in SeqsUpTo(FileContents, MaxRepoFiles)
    /\ file_tier \in [DOMAIN repo_files -> {SMALL, LARGE}]
    /\ next_uuid = 1
    /\ run = NoRun
    /\ last_batch = NoBatch
    /\ log = <<>>
    /\ hash_seed = 0
    /\ document_rows = {DocumentRow(OtherDocument, OtherRepoId)}
    /\ chunk_rows = {ChunkRow(OtherChunk, OtherRepoId)}
    /\ repository_rows = {RepositoryRow(OtherRepoId, 1, 1)}
    /\ points = {PointStruct([chunk_id |-> ChunkId(OtherChunk),
                              vector |-> FiniteVector(MaxDim)], OtherRepoId)}
    /\ last_write = NoWrite

\* The counts of the repository in the two stores.
Counts ==
    [documents |-> Cardinality(RowsOf(document_rows, RepoId)),
     chunks |-> Cardinality(RowsOf(chunk_rows, RepoId)),
     vectors |-> Cardinality(RowsOf(points, RepoId))]

\* The failures so far.
FailureCount ==
    (IF run.failed THEN 1 ELSE 0)
    + Cardinality({i \in DOMAIN log : log[i].failed})

\* The files of a tier, in their order.
FilesOfTier(tiers) ==
    SelectSeq([i \in DOMAIN repo_files |-> i], LAMBDA i : file_tier[i] \in tiers)

\* process_repository_adaptive up to the first batch: every file of the
\* repository is processable; without files it returns at once.
StartIngest ==
    /\ run.pc \in {"idle", "done"}
    /\ Len(log) < MaxEvents
    /\ last_batch' = NoBatch
    /\ IF repo_files = <<>>
       THEN /\ run' = [NoRun EXCEPT !.pc = "done"]
            /\ log' = Append(log, [event |-> "ingest", clean |-> TRUE, failed |-> FALSE,
                                   outcome |-> "empty", counts |-> Counts])
       ELSE /\ run' = [NoRun EXCEPT !.pc = "running",
                                    !.todo = FilesOfTier({SMALL, MEDIUM}),
                                    !.large = FilesOfTier({LARGE})]
            /\ log' = log
    /\ UNCHANGED <<storeVars, repo_files, file_tier, next_uuid, exceptStore>>

\* One turn of the loop of _process_small_medium_files: the next k files are
\* loaded, chunked, embedded and written.
IngestBatch ==
    /\ run.pc = "running"
    /\ run.todo # <<>>
    /\ \E k \in 1..Len(run.todo), failure \in Failures :
        LET batch == SubSeq(run.todo, 1, k)
            rest == SubSeq(run.todo, k + 1, Len(run.todo))
            loaded == IF failure = "load" THEN Tail(batch) ELSE batch
            docs == LoadDocuments(loaded, repo_files, next_uuid)
            all_chunks == AllChunks(docs)
        IN  /\ failure # "none" => FailureCount < MaxFailures
            /\ \E valid \in [DOMAIN all_chunks -> BOOLEAN] :
                LET embeddings ==
                        BatchEmbeddings(all_chunks, valid,
                                        IF failure = "generate" THEN {1} ELSE {}, 1)
                    result == IF docs = <<>> THEN [StoreNow EXCEPT !.raised = TRUE]
                              ELSE WriteBatchToDatabase(StoreNow, docs, all_chunks,
                                                        embeddings, RepoId, failure)
                    written == ~result.raised
                IN  /\ Cardinality({i \in DOMAIN valid : ~valid[i]}) <= MaxInvalid
                    /\ next_uuid' = next_uuid + Len(docs)
                    /\ document_rows' = result.document_rows
                    /\ chunk_rows' = result.chunk_rows
                    /\ points' = result.points
                    /\ run' = [run EXCEPT
                           !.todo = rest,
                           !.total_files = IF written THEN @ + Len(docs) ELSE @,
                           !.total_chunks = IF written THEN @ + Len(all_chunks) ELSE @,
                           !.clean = @ /\ failure \notin {"load", "documents", "chunks"},
                           !.failed = @ \/ failure # "none"]
                    /\ last_batch' = [done |-> TRUE, streamed |-> FALSE,
                                      all_chunks |-> all_chunks, valid |-> valid,
                                      failure |-> failure, fails_at |-> 1]
    /\ UNCHANGED <<repository_rows, last_write, hash_seed, repo_files, file_tier, log,
                   exceptStore>>

\* One turn of the loop of _process_large_files, after the batches: the next
\* large file goes through _stream_process_file; what it raises is caught
\* and the file is not counted.
ProcessLargeFile ==
    /\ run.pc = "running"
    /\ run.todo = <<>>
    /\ run.large # <<>>
    /\ \E failure \in Failures :
        LET file == Head(run.large)
            doc == DocumentCreate(next_uuid, file, repo_files[file])
            doc_chunks == ProcessDocument(doc)
        IN  /\ failure # "none" => FailureCount < MaxFailures
            /\ \E valid \in [DOMAIN doc_chunks -> BOOLEAN],
                  fails_at \in {i \in DOMAIN doc_chunks : (i - 1) % StreamBatchSize = 0} :
                LET result == IF failure = "load" THEN [StoreNow EXCEPT !.raised = TRUE]
                              ELSE StreamProcessFile(StoreNow, doc, valid, RepoId, failure,
                                                     fails_at)
                    counted == ~result.raised
                IN  /\ Cardinality({i \in DOMAIN valid : ~valid[i]}) <= MaxInvalid
                    /\ next_uuid' = IF failure = "load" THEN next_uuid ELSE next_uuid + 1
                    /\ document_rows' = result.document_rows
                    /\ chunk_rows' = result.chunk_rows
                    /\ points' = result.points
                    /\ run' = [run EXCEPT
                           !.large = Tail(@),
                           !.total_files = IF counted THEN @ + 1 ELSE @,
                           !.total_chunks = IF counted THEN @ + Len(doc_chunks) ELSE @,
                           !.clean = @ /\ failure \notin {"load", "documents", "chunks"},
                           !.failed = @ \/ failure # "none"]
                    /\ last_batch' = [done |-> FALSE, streamed |-> failure # "load",
                                      all_chunks |-> doc_chunks, valid |-> valid,
                                      failure |-> failure, fails_at |-> fails_at]
    /\ UNCHANGED <<repository_rows, last_write, hash_seed, repo_files, file_tier, log,
                   exceptStore>>

\* The end of process_repository_adaptive, after the tiers:
\* update_repository_metadata with the totals of the run, and True; when the
\* upsert raises, the exception is caught and False is returned.
FinishIngest ==
    /\ run.pc = "running"
    /\ run.todo = <<>>
    /\ run.large = <<>>
    /\ \E raises \in BOOLEAN :
          /\ raises => FailureCount < MaxFailures
          /\ repository_rows' =
                IF raises THEN repository_rows
                ELSE UpdateRepositoryMetadata(repository_rows, RepoId,
                                              run.total_files, run.total_chunks)
          /\ log' = Append(log, [event |-> "ingest", clean |-> run.clean,
                                 failed |-> run.failed \/ raises,
                                 outcome |-> IF raises THEN "error" ELSE "done",
                                 counts |-> Counts])
    /\ run' = [NoRun EXCEPT !.pc = "done", !.total_files = run.total_files,
                            !.total_chunks = run.total_chunks]
    /\ last_batch' = NoBatch
    /\ UNCHANGED <<document_rows, chunk_rows, points, last_write, hash_seed, repo_files,
                   file_tier, next_uuid, exceptStore>>

\* delete_repository_data(repo_id): the rows of the three tables go in one
\* transaction, which is rolled back and re-raised on an error; then the
\* vectors go, and an error there is only logged.
DeleteRepositoryData ==
    /\ run.pc \in {"idle", "done"}
    /\ Len(log) < MaxEvents
    /\ \E outcome \in {"ok", "sqlite_raises", "qdrant_fails"}, statement \in 1..3 :
          LET fails_at == IF outcome = "sqlite_raises" THEN statement ELSE 0
              tables == RelationalDelete(
                            [chunk_rows |-> chunk_rows, document_rows |-> document_rows,
                             repository_rows |-> repository_rows], RepoId, fails_at)
          IN  /\ outcome # "ok" => FailureCount < MaxFailures
              /\ chunk_rows' = tables.chunk_rows
              /\ document_rows' = tables.document_rows
              /\ repository_rows' = tables.repository_rows
              /\ points' = VectorDelete(points, RepoId, outcome)
              /\ log' = Append(log, [event |-> "delete", clean |-> outcome = "ok",
                                     failed |-> outcome # "ok", outcome |-> outcome,
                                     counts |-> Counts])
    /\ UNCHANGED <<last_write, hash_seed, repo_files, file_tier, next_uuid, run,
                   last_batch, exceptStore>>

IngestNext ==
    \/ StartIngest
    \/ IngestBatch
    \/ ProcessLargeFile
    \/ FinishIngest
    \/ DeleteRepositoryData

\* ------------------------------------------------------------------------
\* main and ETLWorkflow.run: passes over the repository sources
\* ------------------------------------------------------------------------

MaxPasses == 2          \* the calls of main in a behaviour
MaxTreeFiles == 1       \* the processable files of a repository

\* Sources and paths are the lists of their parts.
Url == <<"https://host", "owner", "proj">>
PathB == <<"work", "b">>
PathC == <<"work", "c">>
StoragePath == <<"storage", "repositories">>

\* source.startswith("http") and validators.url(source)
StartsWithHttp(source) == source[1] = "https://host"

\* ETLExtractor._get_repo_name: the last part of the path of the URL.
GetRepoName(url) == url[Len(url)]

\* target_path = self.storage_path / repo_name
TargetPath(url) == Append(StoragePath, GetRepoName(url))

StoragePaths == <<TargetPath(Url)>>
Paths == {PathB, PathC} \cup Range(StoragePaths)
SourceLists == {<<Url>>, <<PathB>>, <<Url, PathB>>, <<PathB, PathC>>}

\* What is at a path: nothing, a directory that can be listed with its
\* processable files, one whose listing is denied, one whose listing fails
\* with another OSError.
Absent == [root |-> "missing", files |-> 0]
Nodes ==
    {Absent, [root |-> "unreadable", files |-> 0], [root |-> "io_error", files |-> 0]}
        \cup {[root |-> "readable", files |-> n] : n \in 0..MaxTreeFiles}

\* Path(path).exists(); a URL names no path.
PathExists(tr, path) == path \in DOMAIN tr /\ tr[path].root # "missing"

\* split_repositories_by_source: URLs are online, existing paths are local,
\* everything else is dropped.
SplitRepositoriesBySource(sources, tr) ==
    LET IsLocal(source) == ~StartsWithHttp(source) /\ PathExists(tr, source)
    IN  [online |-> SelectSeq(sources, StartsWithHttp),
         local |-> SelectSeq(sources, IsLocal)]

\* _generate_repo_id of the manager and of the processor: "repo_" and the
\* head of the md5 of the source string.
GenerateRepoId(source) == <<"repo_", Md5(source)>>

\* The rows of one ingested file: its document under a fresh uuid4 and a
\* chunk of it; the row of its repository.
FileDocumentRow(pass, source, k, repo_id) ==
    [id |-> <<"uuid", pass, source, k>>, repo_id |-> repo_id,
     file_path |-> Append(source, k)]
FileChunkRow(pass, source, k, repo_id) ==
    [id |-> <<<<"uuid", pass, source, k>>, 0>>, repo_id |-> repo_id,
     doc_id |-> <<"uuid", pass, source, k>>]
SourceRow(repo_id, source) == [id |-> repo_id, repo_id |-> repo_id, source |-> source]

EmptyCatalog == [chunk_rows |-> {}, document_rows |-> {}, repository_rows |-> {}]

\* get_existing_repository_sources: SELECT source FROM repositories WHERE
\* source IN (sources).
GetExistingRepositorySources(cat, sources) ==
    LET Stored(source) == \E r \in cat.repository_rows : r.source = source
    IN  SelectSeq(sources, Stored)

RECURSIVE CleanupRepositoryData(_, _, _)
\* cleanup_repository_data: each source is deleted under the id of its own
\* string; a delete that raises is logged and the next source follows.
CleanupRepositoryData(cat, sources, raising) ==
    IF sources = <<>> THEN cat
    ELSE CleanupRepositoryData(
             RelationalDelete(cat, GenerateRepoId(Head(sources)),
                              IF Head(sources) \in raising THEN 1 ELSE 0),
             Tail(sources), raising)

\* ETLExtractor._get_existing_repositories: the directories of the storage.
GetExistingRepositories(tr) ==
    LET IsDir(path) == PathExists(tr, path)
    IN  SelectSeq(StoragePaths, IsDir)

\* ETLExtractor.clone with its default redownload=False: the repositories
\* whose name is not in the storage are cloned (those in cloned_ok with
\* success); nothing to clone returns [], anything else returns every
\* directory of the storage.
Clone(tr, online, cloned_ok) ==
    LET existing == GetExistingRepositories(tr)
        names == {GetRepoName(existing[i]) : i \in DOMAIN existing}
        IsNew(url) == GetRepoName(url) \notin names
        todo == SelectSeq(online, IsNew)
        Cloned(path) == \E i \in DOMAIN todo :
                            TargetPath(todo[i]) = path /\ todo[i] \in cloned_ok
        after == [path \in DOMAIN tr |->
                     IF Cloned(path) THEN [root |-> "readable", files |-> MaxTreeFiles]
                     ELSE tr[path]]
    IN  IF todo = <<>> THEN [tree |-> tr, downloaded |-> <<>>]
        ELSE [tree |-> after, downloaded |-> GetExistingRepositories(after)]

\* RepositoryManager.cleanup_temp_files: the storage is removed and made anew.
CleanupTempFiles(tr) ==
    [path \in DOMAIN tr |-> IF path \in Range(StoragePaths) THEN Absent ELSE tr[path]]

ProcessFailures == {"none", "classify", "metadata", "raises"}

\* process_repository_adaptive(repository) on what is at its path. rglob
\* yields nothing for a path that is missing or whose listing is denied, and
\* raises any other OSError; without processable files the call returns True
\* early; an exception inside the try returns False: before any write
\* ("classify"), or after the rows of the files are written ("metadata");
\* "raises" is an exception that gets out of the call.
ProcessRepositoryAdaptive(cat, node, source, pass, failure) ==
    LET repo_id == GenerateRepoId(source)
        processable == IF node.root = "readable" THEN 1..node.files ELSE {}
        written ==
            [cat EXCEPT
                !.document_rows =
                    @ \cup {FileDocumentRow(pass, source, k, repo_id) : k \in processable},
                !.chunk_rows =
                    @ \cup {FileChunkRow(pass, source, k, repo_id) : k \in processable}]
    IN  IF failure = "raises" THEN [catalog |-> cat, outcome |-> "raises"]
        ELSE IF node.root = "io_error" THEN [catalog |-> cat, outcome |-> "False"]
        ELSE IF processable = {} THEN [catalog |-> cat, outcome |-> "True"]
        ELSE IF failure = "classify" THEN [catalog |-> cat, outcome |-> "False"]
        ELSE IF failure = "metadata" THEN [catalog |-> written, outcome |-> "False"]
        ELSE [catalog |-> [written EXCEPT
                              !.repository_rows =
                                  InsertOrReplace(@, SourceRow(repo_id, source))],
              outcome |-> "True"]

\* A plausible slip: no except around the call, and an exception ends the
\* run there: it is not counted and the repositories that follow are never
\* attempted.
AfterRepositoryEscaping(w, repository, node, outcome) ==
    IF outcome = "raises"
    THEN [w EXCEPT !.pc = "done"]
    ELSE [w EXCEPT
            !.attempted = Append(@, [source |-> repository, root |-> node.root,
                                     files |-> node.files, outcome |-> outcome]),
            !.successful_uploads = IF outcome = "True" THEN @ + 1 ELSE @,
            !.failed_uploads = IF outcome = "True" THEN @ ELSE @ + 1]

\* The body of the loop of ETLWorkflow.run after the call: True counts as a
\* success, False and an exception as a failure, and the loop goes on.
AfterRepository(w, repository, node, outcome) ==
    [w EXCEPT
        !.attempted = Append(@, [source |-> repository, root |-> node.root,
                                 files |-> node.files, outcome |-> outcome]),
        !.successful_uploads = IF outcome = "True" THEN @ + 1 ELSE @,
        !.failed_uploads = IF outcome = "True" THEN @ ELSE @ + 1]

NoWorkflow ==
    [pc |-> "idle", pass |-> 0, update_repositories |-> FALSE,
     remove_temp_files |-> FALSE, local_repositories |-> <<>>, attempted |-> <<>>,
     successful_uploads |-> 0, failed_uploads |-> 0, faulted |-> FALSE]

WorkflowIdle ==
    /\ main_sources = <<>>
    /\ tree = [path \in Paths |-> Absent]
    /\ catalog = EmptyCatalog
    /\ workflow = NoWorkflow

WorkflowInit ==
    /\ main_sources \in SourceLists
    /\ tree \in {tr \in [Paths -> Nodes] :
                    \A path \in Paths :
                        path \notin Range(main_sources) => tr[path] = Absent}
    /\ catalog = EmptyCatalog
    /\ workflow = NoWorkflow

\* main up to the loop of ETLWorkflow.run: the sources are split, the rows of
\* the repositories to ingest again are cleaned up (in update mode those of
\* the online sources and of the changed local ones, otherwise those whose
\* source is in the table repositories), the online sources are cloned, the
\* clones join the local repositories and the paths that exist are kept.
MainStart ==
    /\ workflow.pc \in {"idle", "done"}
    /\ workflow.pass < MaxPasses
    /\ LET split == SplitRepositoriesBySource(main_sources, tree)
       IN  /\ split.online # <<>> \/ split.local # <<>>
           /\ \E update_repositories, remove_temp_files \in BOOLEAN,
                 changed \in SUBSET Range(split.local),
                 raising \in SUBSET Range(main_sources),
                 cloned_ok \in SUBSET Range(split.online) :
                 LET IsChanged(source) == source \in changed
                     to_update == SelectSeq(split.local, IsChanged)
                     existing == GetExistingRepositorySources(
                                     catalog, split.online \o split.local)
                     cleaned ==
                         IF update_repositories
                         THEN CleanupRepositoryData(
                                  CleanupRepositoryData(catalog, split.online, raising),
                                  to_update, raising)
                         ELSE CleanupRepositoryData(catalog, existing, raising)
                     local == IF update_repositories THEN to_update ELSE split.local
                     cl == IF split.online # <<>>
                           THEN Clone(tree, split.online, cloned_ok)
                           ELSE [tree |-> tree, downloaded |-> <<>>]
                     Valid(source) == PathExists(cl.tree, source)
                 IN  /\ update_repositories \/ changed = {}
                     /\ catalog' = cleaned
                     /\ tree' = cl.tree
                     /\ workflow' =
                            [pc |-> "loop", pass |-> workflow.pass + 1,
                             update_repositories |-> update_repositories,
                             remove_temp_files |-> remove_temp_files,
                             local_repositories |->
                                 SelectSeq(local \o cl.downloaded, Valid),
                             attempted |-> <<>>,
                             successful_uploads |-> 0, failed_uploads |-> 0,
                             faulted |-> \/ workflow.faulted
                                         \/ raising # {}
                                         \/ cloned_ok # Range(split.online)]
    /\ UNCHANGED <<main_sources, exceptWorkflow>>

\* One turn of the loop of ETLWorkflow.run.
ProcessRepository ==
    /\ workflow.pc = "loop"
    /\ Len(workflow.attempted) < Len(workflow.local_repositories)
    /\ \E failure \in ProcessFailures :
          LET repository == workflow.local_repositories[Len(workflow.attempted) + 1]
              node == tree[repository]
              result == ProcessRepositoryAdaptive(catalog, node, repository,
                                                  workflow.pass, failure)
              clean == ProcessRepositoryAdaptive(catalog, node, repository,
                                                 workflow.pass, "none")
              after == AfterRepository(workflow, repository, node, result.outcome)
          IN  /\ catalog' = result.catalog
              /\ workflow' = [after EXCEPT !.faulted = @ \/ result # clean]
    /\ UNCHANGED <<main_sources, tree, exceptWorkflow>>

\* The end of the loop and the rest of main: the counts are logged and, when
\* asked for, the storage of the clones is emptied.
FinishMain ==
    /\ workflow.pc = "loop"
    /\ Len(workflow.attempted) = Len(workflow.local_repositories)
    /\ workflow' = [workflow EXCEPT !.pc = "done"]
    /\ tree' = IF workflow.remove_temp_files THEN CleanupTempFiles(tree) ELSE tree
    /\ UNCHANGED <<main_sources, catalog, exceptWorkflow>>

WorkflowNext == MainStart \/ ProcessRepository \/ FinishMain

\* ------------------------------------------------------------------------
\* StreamingFileReader and the document loaders of the three strategies
\* ------------------------------------------------------------------------

MaxBytes == 5           \* the longest file of the model, in bytes
MaxReadAhead == 1       \* how far past a piece the decoder's buffer may reach
ChunkSizeChars == 2     \* chunk_size_bytes = 10 * 1024 * 1024 of the reader, scaled
MinContentLength == 2   \* the 10 of _load_document, scaled

\* The bytes a file is made of: a space, the letter a, and the two bytes of
\* the UTF-8 encoding of U+00E9, each of which is invalid UTF-8 on its own.
Space == 32
FileBytes == {Space, 97, 195, 169}

\* None where a str is expected: told from every text by a number no
\* character has.
NoContent == <<-1>>

IsContinuation(b) == b >= 128 /\ b <= 191
IsLeadOfTwo(b) == b >= 194 /\ b <= 223

RECURSIVE Utf8Decode(_)
\* bytes.decode("utf-8"): the characters before the first invalid byte, and
\* whether the whole file decoded.
Utf8Decode(bytes) ==
    IF bytes = <<>> THEN [ok |-> TRUE, chars |-> <<>>]
    ELSE IF Head(bytes) < 128
    THEN LET rest == Utf8Decode(Tail(bytes))
         IN [ok |-> rest.ok, chars |-> <<Head(bytes)>> \o rest.chars]
    ELSE IF IsLeadOfTwo(Head(bytes)) /\ Len(bytes) >= 2 /\ IsContinuation(bytes[2])
    THEN LET rest == Utf8Decode(Tail(Tail(bytes)))
         IN [ok |-> rest.ok,
             chars |-> <<(Head(bytes) - 192) * 64 + (bytes[2] - 128)>> \o rest.chars]
    ELSE [ok |-> FALSE, chars |-> <<>>]

\* bytes.decode("latin1"): every byte is the character of the same number.
Latin1Decode(bytes) == [ok |-> TRUE, chars |-> [i \in DOMAIN bytes |-> bytes[i]]]

\* bytes.decode("ascii")
AsciiDecode(bytes) ==
    IF \A i \in DOMAIN bytes : bytes[i] < 128
    THEN [ok |-> TRUE, chars |-> bytes] ELSE [ok |-> FALSE, chars |-> <<>>]

\* Path.read_text(encoding=...) for the encodings _load_document tries. None
\* of FileBytes is a byte order mark or one of the bytes on which cp1252 and
\* latin1 differ.
ReadText(bytes, encoding) ==
    CASE encoding \in {"utf-8", "utf-8-sig"} -> Utf8Decode(bytes)
      [] encoding \in {"latin1", "cp1252"} -> Latin1Decode(bytes)
      [] OTHER -> AsciiDecode(bytes)

Encodings == <<"utf-8", "utf-8-sig", "latin1", "cp1252", "ascii">>

RECURSIVE TryEncodings(_, _)
\* The loop of _load_document over the encodings: the first that decodes.
TryEncodings(bytes, encodings) ==
    IF encodings = <<>> THEN NoContent
    ELSE IF ReadText(bytes, Head(encodings)).ok
    THEN ReadText(bytes, Head(encodings)).chars
    ELSE TryEncodings(bytes, Tail(encodings))

RECURSIVE LStrip(_)
LStrip(chars) ==
    IF chars # <<>> /\ Head(chars) = Space THEN LStrip(Tail(chars)) ELSE chars

RECURSIVE RStrip(_)
RStrip(chars) ==
    IF chars # <<>> /\ chars[Len(chars)] = Space
    THEN RStrip(SubSeq(chars, 1, Len(chars) - 1)) ELSE chars

\* str.strip()
Strip(chars) == RStrip(LStrip(chars))

RECURSIVE Pieces(_)
\* The loop file.read(self.chunk_size_bytes) over a text that decodes.
Pieces(chars) ==
    IF chars = <<>> THEN <<>>
    ELSE IF Len(chars) <= ChunkSizeChars THEN <<chars>>
    ELSE <<SubSeq(chars, 1, ChunkSizeChars)>>
         \o Pieces(SubSeq(chars, ChunkSizeChars + 1, Len(chars)))

\* The pieces yielded in UTF-8 before the read that raises UnicodeDecodeError:
\* the read whose buffer holds the invalid byte, the buffer reaching ahead
\* characters past the piece.
PiecesBeforeError(chars, ahead) ==
    LET usable == IF Len(chars) > ahead THEN Len(chars) - ahead ELSE 0
    IN  SubSeq(Pieces(chars), 1, usable \div ChunkSizeChars)

\* StreamingFileReader.read_file_chunks: everything the generator yields.
ReadFileChunks(bytes, ahead) ==
    LET decoded == Utf8Decode(bytes)
    IN  IF decoded.ok THEN Pieces(decoded.chars)
        ELSE PiecesBeforeError(decoded.chars, ahead) \o Pieces(Latin1Decode(bytes).chars)

\* StreamingFileReader.read_file_with_mmap: mmap refuses an empty file.
ReadFileWithMmap(bytes) ==
    IF bytes = <<>> THEN NoContent
    ELSE IF Utf8Decode(bytes).ok THEN Utf8Decode(bytes).chars ELSE NoContent

\* Document.create: the model strips the content it is given.
DocumentOf(content) == [content |-> Strip(content)]

NoDocument == [content |-> NoContent]

NoRead == [strategy |-> "none", pieces |-> <<>>, decoded |-> NoContent,
           document |-> NoDocument]

ReaderIdle ==
    /\ reader_file = <<>>
    /\ reader_out = NoRead

ReaderInit ==
    /\ reader_file \in SeqsUpTo(FileBytes, MaxBytes)
    /\ reader_out = NoRead

\* _load_document: the content and the document of a file.
LoadDocument(bytes) ==
    LET content == TryEncodings(bytes, Encodings)
    IN  [decoded |-> content,
         document |-> IF content = NoContent THEN NoDocument
                      ELSE IF Len(Strip(content)) < MinContentLength THEN NoDocument
                      ELSE DocumentOf(content)]

\* The batch-in-memory strategy reads a file: _load_document.
BatchLoadFile ==
    /\ reader_out.strategy = "none"
    /\ reader_out' = [strategy |-> "batch", pieces |-> <<>>,
                      decoded |-> LoadDocument(reader_file).decoded,
                      document |-> LoadDocument(reader_file).document]
    /\ UNCHANGED <<reader_file, exceptReader>>

\* The chunked-stream strategy reads a file: the head of _stream_process_file.
StreamReadFile ==
    /\ reader_out.strategy = "none"
    /\ \E ahead \in 0..MaxReadAhead :
        LET file_content_chunks == ReadFileChunks(reader_file, ahead)
            full_content == Concat(file_content_chunks)
        IN  reader_out' =
                [strategy |-> "chunked", pieces |-> file_content_chunks,
                 decoded |-> IF file_content_chunks = <<>> THEN NoContent
                             ELSE full_content,
                 document |-> IF file_content_chunks = <<>> THEN NoDocument
                              ELSE DocumentOf(full_content)]
    /\ UNCHANGED <<reader_file, exceptReader>>

\* The memory-mapped strategy reads a file: the head of
\* _advanced_stream_process_file.
AdvancedStreamReadFile ==
    /\ reader_out.strategy = "none"
    /\ LET content == ReadFileWithMmap(reader_file)
       IN  reader_out' =
               [strategy |-> "mmap", pieces |-> <<>>, decoded |-> content,
                document |-> IF content = NoContent \/ content = <<>> THEN NoDocument
                             ELSE DocumentOf(content)]
    /\ UNCHANGED <<reader_file, exceptReader>>

ReaderNext == BatchLoadFile \/ StreamReadFile \/ AdvancedStreamReadFile

\* ------------------------------------------------------------------------
\* The construction of QdrantBatchWriter and of EmbeddingService
\* ------------------------------------------------------------------------

MaxCalls == 3            \* most calls that ask for the writer
DefaultDimension == 1    \* the default 768 of both classes, scaled

Dimensions == 1..MaxDim

\* What embed_documents(["test"])[0] may be for _detect_embedding_dimension:
\* a vector of some length, a value without __len__, or an exception.
Probes ==
    {[kind |-> "vector", length |-> d] : d \in Dimensions}
        \cup {[kind |-> "no __len__", length |-> 0], [kind |-> "raises", length |-> 0]}

\* The writer object as __new__ leaves it: no attribute set.
FreshWriter == [locks |-> FALSE, paths |-> FALSE, qdrant_client |-> "unset",
                tables |-> FALSE, completed |-> 0]

NoCollection == [exists |-> FALSE, size |-> 0]

NoService == [constructed |-> FALSE, embedding_dim |-> 0, passed |-> {}]

SetupIdle ==
    /\ writer_class = [instance |-> FALSE, initialized |-> FALSE,
                       config_dim |-> DefaultDimension]
    /\ writer_self = FreshWriter
    /\ handed_out = <<>>
    /\ qdrant_collection = NoCollection
    /\ service = NoService

\* A new process: the class attributes as the class statement sets them, the
\* configured dimension (768 when the file has none), and the collection an
\* earlier process may have left in the storage directory.
SetupInit ==
    /\ \E config_dim \in Dimensions :
        writer_class = [instance |-> FALSE, initialized |-> FALSE,
                        config_dim |-> config_dim]
    /\ writer_self = FreshWriter
    /\ handed_out = <<>>
    /\ qdrant_collection \in {NoCollection} \cup {[exists |-> TRUE, size |-> d] : d \in Dimensions}
    /\ service = NoService

\* _init_qdrant_collection on a store that opens: an existing collection is
\* kept as it is, a missing one is created with the configured dimension.
InitQdrantCollection(coll, config_dim) ==
    IF coll.exists THEN coll ELSE [exists |-> TRUE, size |-> config_dim]

\* QdrantBatchWriter(): __new__ followed by __init__. opens says whether
\* QdrantClient(path=...) succeeds. The result gives the class, the object,
\* the collection, and whether the call returned the object or raised.
Construct(class, self, coll, opens) ==
    LET object == IF class.instance THEN self ELSE FreshWriter
        made == [class EXCEPT !.instance = TRUE]
    IN  IF class.initialized
        THEN [class |-> made, self |-> object, collection |-> coll, returned |-> TRUE]
        ELSE IF ~opens
        THEN [class |-> made,
              self |-> [object EXCEPT !.locks = TRUE, !.paths = TRUE,
                                      !.qdrant_client = "None"],
              collection |-> coll, returned |-> FALSE]
        ELSE [class |-> [made EXCEPT !.initialized = TRUE],
              self |-> [object EXCEPT !.locks = TRUE, !.paths = TRUE,
                                      !.qdrant_client = "open", !.tables = TRUE,
                                      !.completed = @ + 1],
              collection |-> InitQdrantCollection(coll, class.config_dim),
              returned |-> TRUE]

\* A caller runs QdrantBatchWriter().
CallConstructor ==
    /\ Len(handed_out) < MaxCalls
    /\ \E opens \in BOOLEAN :
        LET call == Construct(writer_class, writer_self, qdrant_collection, opens)
        IN  /\ writer_class' = call.class
            /\ writer_self' = call.self
            /\ qdrant_collection' = call.collection
            /\ handed_out' = Append(handed_out,
                                    [via |-> "QdrantBatchWriter", returned |-> call.returned,
                                     self |-> call.self])
    /\ UNCHANGED <<service, exceptSetup>>

\* A caller runs QdrantBatchWriter.get_instance().
GetInstance ==
    /\ Len(handed_out) < MaxCalls
    /\ \E opens \in BOOLEAN :
        LET call == IF writer_class.instance
                    THEN [class |-> writer_class, self |-> writer_self,
                          collection |-> qdrant_collection, returned |-> TRUE]
                    ELSE Construct(writer_class, writer_self, qdrant_collection, opens)
        IN  /\ writer_class' = call.class
            /\ writer_self' = call.self
            /\ qdrant_collection' = call.collection
            /\ handed_out' = Append(handed_out,
                                    [via |-> "get_instance", returned |-> call.returned,
                                     self |-> call.self])
    /\ UNCHANGED <<service, exceptSetup>>

\* _detect_embedding_dimension
DetectEmbeddingDimension(probe) ==
    IF probe.kind = "vector" THEN probe.length ELSE DefaultDimension

\* EmbeddingService(): the dimension is detected by a probe of the model.
ConstructService ==
    /\ ~service.constructed
    /\ \E probe \in Probes :
        service' = [constructed |-> TRUE,
                    embedding_dim |-> DetectEmbeddingDimension(probe), passed |-> {}]
    /\ UNCHANGED <<writer_class, writer_self, handed_out, qdrant_collection, exceptSetup>>

\* generate meets a vector of some length: it passes the dimension check of
\* the service if its length is self.embedding_dim.
GenerateVector ==
    /\ service.constructed
    /\ \E length \in Dimensions :
        service' = [service EXCEPT !.passed =
                        IF length = service.embedding_dim THEN @ \cup {length} ELSE @]
    /\ UNCHANGED <<writer_class, writer_self, handed_out, qdrant_collection, exceptSetup>>

SetupNext == CallConstructor \/ GetInstance \/ ConstructService \/ GenerateVector

\* ------------------------------------------------------------------------
\* main in update mode: one local repository over successive runs
\* ------------------------------------------------------------------------

MaxRuns == 2            \* the update-mode runs of main in a behaviour
MaxLocalFiles == 2      \* the processable files of the repository
MaxVersions == 1        \* the changes made to the repository on disk

\* calculate_repository_hash of the repository as it is on disk; the empty
\* string when the walk raises.
Digest(disk) == <<"md5", disk.files, disk.version>>
NoDigest == <<>>

\* The rows stored under the repo_id of the repository.
EmptyLocalDb == [row |-> FALSE, content_hash |-> None, total_files |-> 0,
                 documents |-> {}]

\* get_repository_hash: the content_hash of the row, None without a row.
StoredHash(db) == IF db.row THEN db.content_hash ELSE None

\* delete_repository_data as cleanup_repository_data calls it: a delete that
\* raises is rolled back and logged.
DeleteLocalData(db, raises) == IF raises THEN db ELSE EmptyLocalDb

\* update_repository_metadata: INSERT OR REPLACE names no content_hash, so the
\* new row has none.
UpsertLocalMetadata(db, total_files) ==
    [db EXCEPT !.row = TRUE, !.content_hash = None, !.total_files = total_files]

\* store_repository_hash: UPDATE repositories ... WHERE id = ?, which changes
\* nothing when there is no such row; an exception is rolled back.
StoreRepositoryHash(db, content_hash, raises) ==
    IF raises \/ ~db.row THEN db ELSE [db EXCEPT !.content_hash = content_hash]

\* update_repository_hash: an empty fingerprint is not stored, an exception of
\* the store is logged.
UpdateRepositoryHash(db, content_hash, raises) ==
    IF content_hash = NoDigest THEN db
    ELSE StoreRepositoryHash(db, content_hash, raises)

\* What may go wrong in process_repository_adaptive: nothing, the write of a
\* batch raises and the batch is abandoned, an exception before any write,
\* an exception of the metadata upsert.
IngestFaults == {"none", "batch", "before_write", "metadata"}

\* process_repository_adaptive on the repository: its result and the rows.
ProcessLocalRepository(db, disk, fault, abandoned) ==
    LET kept == (1..disk.files) \ abandoned
        Written(fs) ==
            [db EXCEPT !.documents =
                @ \cup {[file |-> k, version |-> disk.version] : k \in fs}]
    IN  IF disk.files = 0 THEN [db |-> db, outcome |-> "True", written |-> {}]
        ELSE IF fault = "before_write"
        THEN [db |-> db, outcome |-> "False", written |-> {}]
        ELSE IF fault = "metadata"
        THEN [db |-> Written(kept), outcome |-> "False", written |-> kept]
        ELSE [db |-> UpsertLocalMetadata(Written(kept), Cardinality(kept)),
              outcome |-> "True", written |-> kept]

\* A plausible slip: the fingerprint is stored before the ingestion, whose
\* metadata upsert then clears it.
StoreHashThenIngest(db, disk, fault, abandoned, content_hash, raises) ==
    ProcessLocalRepository(UpdateRepositoryHash(db, content_hash, raises),
                           disk, fault, abandoned)
\* main from ETLWorkflow.run on: the repository is ingested, then its
\* fingerprint is computed and stored whatever the ingestion returned.
IngestThenStoreHash(db, disk, fault, abandoned, content_hash, raises) ==
    LET ingested == ProcessLocalRepository(db, disk, fault, abandoned)
    IN  [ingested EXCEPT !.db = UpdateRepositoryHash(ingested.db, content_hash, raises)]

UpdateIdle ==
    /\ local_disk = [files |-> 0, version |-> 0]
    /\ local_db = EmptyLocalDb
    /\ update_runs = <<>>

UpdateInit ==
    /\ local_disk \in [files : 0..MaxLocalFiles, version : {0}]
    /\ local_db = EmptyLocalDb
    /\ update_runs = <<>>

\* One run of main with update_repositories=True on the repository, which
\* exists: the change check, the clean-up, the ingestion, the fingerprint.
MainUpdateMode ==
    /\ Len(update_runs) < MaxRuns
    /\ \E check_fails, cleanup_raises, hash_fails, store_raises \in BOOLEAN,
          fault \in IngestFaults, abandoned \in SUBSET (1..local_disk.files) :
          LET current_hash == IF check_fails THEN NoDigest ELSE Digest(local_disk)
              changed == current_hash = NoDigest \/ StoredHash(local_db) # current_hash
              cleaned == DeleteLocalData(local_db, cleanup_raises)
              content_hash == IF hash_fails THEN NoDigest ELSE Digest(local_disk)
              result == IngestThenStoreHash(cleaned, local_disk, fault, abandoned,
                                            content_hash, store_raises)
          IN  /\ (fault = "batch") <=> (abandoned # {})
              /\ ~changed => ~cleanup_raises /\ ~hash_fails /\ ~store_raises
                             /\ fault = "none"
              /\ local_db' = IF changed THEN result.db ELSE local_db
              /\ update_runs' = Append(update_runs,
                     [disk |-> local_disk,
                      skipped |-> ~changed,
                      outcome |-> IF changed THEN result.outcome ELSE "skipped",
                      written |-> IF changed THEN result.written ELSE {},
                      faulted |-> check_fails \/ cleanup_raises \/ hash_fails
                                  \/ store_raises \/ fault # "none",
                      db |-> IF changed THEN result.db ELSE local_db])
    /\ UNCHANGED <<local_disk, exceptUpdate>>

\* Between two runs somebody changes the repository on disk.
EditLocalRepository ==
    /\ local_disk.version < MaxVersions
    /\ \E n \in 0..MaxLocalFiles :
        local_disk' = [files |-> n, version |-> local_disk.version + 1]
    /\ UNCHANGED <<local_db, update_runs, exceptUpdate>>

UpdateNext == MainUpdateMode \/ EditLocalRepository

\* ------------------------------------------------------------------------
\* Specifications
\* ------------------------------------------------------------------------

InitBatches ==
    /\ BatchInit /\ EmbedIdle /\ HashIdle /\ LockIdle /\ StoreIdle /\ IngestIdle
    /\ ClassifyIdle /\ WorkflowIdle /\ ReaderIdle /\ SetupIdle /\ UpdateIdle
SpecBatches == InitBatches /\ [][BatchNext]_vars

InitEmbed ==
    /\ EmbedInit /\ BatchIdle /\ HashIdle /\ LockIdle /\ StoreIdle /\ IngestIdle
    /\ ClassifyIdle /\ WorkflowIdle /\ ReaderIdle /\ SetupIdle /\ UpdateIdle
SpecEmbed == InitEmbed /\ [][EmbedNext]_vars

InitHash ==
    /\ HashInit /\ BatchIdle /\ EmbedIdle /\ LockIdle /\ StoreIdle /\ IngestIdle
    /\ ClassifyIdle /\ WorkflowIdle /\ ReaderIdle /\ SetupIdle /\ UpdateIdle
SpecHash == InitHash /\ [][HashNext]_vars

InitWriter ==
    /\ StoreInit /\ IngestIdle /\ BatchIdle /\ EmbedIdle /\ HashIdle /\ LockIdle
    /\ ClassifyIdle /\ WorkflowIdle /\ ReaderIdle /\ SetupIdle /\ UpdateIdle
SpecWriter == InitWriter /\ [][WriterNext]_vars

InitPoints ==
    /\ StoreInit /\ IngestIdle /\ BatchIdle /\ EmbedIdle /\ HashIdle /\ LockIdle
    /\ ClassifyIdle /\ WorkflowIdle /\ ReaderIdle /\ SetupIdle /\ UpdateIdle
SpecPoints == InitPoints /\ [][PointsNext]_vars

InitIngest ==
    /\ IngestInit /\ BatchIdle /\ EmbedIdle /\ HashIdle /\ LockIdle /\ ClassifyIdle
    /\ WorkflowIdle /\ ReaderIdle /\ SetupIdle /\ UpdateIdle
SpecIngest == InitIngest /\ [][IngestNext]_vars

InitLocks ==
    /\ LockInit /\ BatchIdle /\ EmbedIdle /\ HashIdle /\ StoreIdle /\ IngestIdle
    /\ ClassifyIdle /\ WorkflowIdle /\ ReaderIdle /\ SetupIdle /\ UpdateIdle
SpecLocks == InitLocks /\ [][LockNext]_vars

InitClassify ==
    /\ ClassifyInit /\ BatchIdle /\ EmbedIdle /\ HashIdle /\ LockIdle /\ StoreIdle
    /\ IngestIdle /\ WorkflowIdle /\ ReaderIdle /\ SetupIdle /\ UpdateIdle
SpecClassify == InitClassify /\ [][ClassifyNext]_vars

InitTiers ==
    /\ ClassifyInit /\ BatchIdle /\ EmbedIdle /\ HashIdle /\ LockIdle /\ StoreIdle
    /\ IngestIdle /\ WorkflowIdle /\ ReaderIdle /\ SetupIdle /\ UpdateIdle
SpecTiers == InitTiers /\ [][TiersNext]_vars

InitWorkflow ==
    /\ WorkflowInit /\ BatchIdle /\ EmbedIdle /\ HashIdle /\ LockIdle /\ StoreIdle
    /\ IngestIdle /\ ClassifyIdle /\ ReaderIdle /\ SetupIdle /\ UpdateIdle
SpecWorkflow == InitWorkflow /\ [][WorkflowNext]_vars

InitReader ==
    /\ ReaderInit /\ BatchIdle /\ EmbedIdle /\ HashIdle /\ LockIdle /\ StoreIdle
    /\ IngestIdle /\ ClassifyIdle /\ WorkflowIdle /\ SetupIdle /\ UpdateIdle
SpecReader == InitReader /\ [][ReaderNext]_vars

InitSetup ==
    /\ SetupInit /\ BatchIdle /\ EmbedIdle /\ HashIdle /\ LockIdle /\ StoreIdle
    /\ IngestIdle /\ ClassifyIdle /\ WorkflowIdle /\ ReaderIdle /\ UpdateIdle
SpecSetup == InitSetup /\ [][SetupNext]_vars

InitUpdate ==
    /\ UpdateInit /\ BatchIdle /\ EmbedIdle /\ HashIdle /\ LockIdle /\ StoreIdle
    /\ IngestIdle /\ ClassifyIdle /\ WorkflowIdle /\ ReaderIdle /\ SetupIdle
SpecUpdate == InitUpdate /\ [][UpdateNext]_vars

\* ------------------------------------------------------------------------
\* Properties
\* ------------------------------------------------------------------------

RECURSIVE SumMemory(_)
SumMemory(batch) ==
    IF batch = <<>> THEN 0
    ELSE Head(batch).memory_requirement_mb + SumMemory(Tail(batch))

\* C1: every returned batch sums to at most the safe budget, unless it is a
\* single file whose own memory cost exceeds the budget; an oversized file is
\* alone in its batch, and every file of the input is in exactly one batch.
C1_MemorySafeBatches ==
    packed =>
        /\ \A i \in DOMAIN batches :
              \/ SumMemory(batches[i]) <= safe_memory_threshold
              \/ /\ Len(batches[i]) = 1
                 /\ batches[i][1].memory_requirement_mb > safe_memory_threshold
        /\ \A i \in DOMAIN batches : \A j \in DOMAIN batches[i] :
              batches[i][j].memory_requirement_mb > safe_memory_threshold
                  => Len(batches[i]) = 1
        /\ Concat(batches) = SortedBySize(files)

\* An oversized file in its own batch next to a batch of several files.
C1_Witness ==
    /\ packed
    /\ \E i \in DOMAIN batches :
          /\ Len(batches[i]) = 1
          /\ batches[i][1].memory_requirement_mb > safe_memory_threshold
    /\ \E i \in DOMAIN batches :
          /\ Len(batches[i]) >= 2
          /\ SumMemory(batches[i]) > 0

\* The vectors the claim calls invalid: empty, a NaN or an infinite value, a
\* value or a vector that does not convert to floats, or a wrong length.
InvalidVector(v, dim) ==
    \/ v = NotIterable
    \/ v = <<>>
    \/ \E j \in DOMAIN v : v[j] \in {NaN, PosInf, NegInf, NotAFloat}
    \/ Len(v) # dim

\* C3: generate drops exactly the embeddings whose vector is invalid; every
\* other chunk of the call gets its embedding, with chunk_id doc_id:chunk_hash
\* and in input order; the call returns a list whatever the service did.
C3_InvalidVectorsDropped ==
    generated =>
        IF ~gen_vectors.raised /\ Len(gen_vectors.vectors) = Len(gen_chunks)
        THEN LET kept == SelectSeq([i \in DOMAIN gen_chunks |-> i],
                            LAMBDA i : ~InvalidVector(gen_vectors.vectors[i], embedding_dim))
             IN  /\ Len(result_embeddings) = Len(kept)
                 /\ \A k \in DOMAIN kept :
                       /\ result_embeddings[k].chunk_id = ChunkId(gen_chunks[kept[k]])
                       /\ result_embeddings[k].vector = gen_vectors.vectors[kept[k]]
        ELSE result_embeddings = <<>>

\* A call whose first vector holds a NaN and whose second is valid: the second
\* chunk gets its embedding.
C3_Witness ==
    /\ generated
    /\ ~gen_vectors.raised
    /\ Len(gen_vectors.vectors) = 2
    /\ Len(gen_chunks) = 2
    /\ Len(gen_vectors.vectors[1]) = embedding_dim
    /\ \E j \in 1..embedding_dim : gen_vectors.vectors[1][j] = NaN
    /\ Len(result_embeddings) = 1
    /\ result_embeddings[1].chunk_id = ChunkId(gen_chunks[2])

\* The first fingerprint and the disk it was taken of.
First == hash_calls[1]

\* Both fingerprints were taken without an error of the walk.
BothTaken ==
    /\ check.done
    /\ disk_exists
    /\ ~First.walk_raises
    /\ ~check.walk_raises

\* The files whose content differs between the first fingerprint and now.
ChangedContent == {rel \in RelPaths : First.files[rel].content # disk_files[rel].content}

\* Nothing but the content of the files in S differs from the first fingerprint.
OnlyContentChanged(S) ==
    /\ disk_root = First.root
    /\ ChangedContent = S
    /\ \A rel \in RelPaths :
          /\ First.files[rel].readable = disk_files[rel].readable
          /\ First.files[rel].mtime = disk_files[rel].mtime

\* C7: check_repository_changes reports a source whenever it is online, the
\* current fingerprint is empty, nothing is stored, the stored fingerprint
\* differs or the check raised; it omits a source only when a non-empty current
\* fingerprint equals the stored one.
C7_FailOpen ==
    check.done =>
        /\ OnlineSource \in check.repos_to_update
        /\ LocalSource \in check.repos_to_update <=>
              \/ check.current_hash = EmptyString
              \/ check.stored = None
              \/ check.stored # check.current_hash
              \/ check.db_raises

\* The stored fingerprint equals the current one and reading it raised: the
\* source is reported all the same.
C7_Witness ==
    /\ check.done
    /\ check.db_raises
    /\ check.current_hash # EmptyString
    /\ check.stored = check.current_hash
    /\ LocalSource \in check.repos_to_update

\* C8: the fingerprint is deterministic and sensitive to content and paths:
\* two fingerprints of the same directory content are equal; a changed byte in
\* one file changes the digest; two files of different content that change
\* places change the digest. The files are files that the skip rules of the
\* fingerprint, applied to their paths in the repository, leave in.
C8_DeterministicContentPathSensitive ==
    BothTaken =>
        /\ OnlyContentChanged({}) => check.current_hash = First.digest
        /\ \A rel \in RelPaths :
              (/\ OnlyContentChanged({rel})
               /\ IsFile(First.files, rel)
               /\ ~ShouldSkipFile(rel, disk_files[rel]))
                  => check.current_hash # First.digest
        /\ \A p \in RelPaths, q \in RelPaths :
              (/\ p # q
               /\ disk_root = First.root
               /\ disk_files = [First.files EXCEPT ![p] = First.files[q],
                                                   ![q] = First.files[p]]
               /\ IsFile(disk_files, p) /\ ~ShouldSkipFile(p, disk_files[p])
               /\ IsFile(disk_files, q) /\ ~ShouldSkipFile(q, disk_files[q])
               /\ disk_files[p].content # disk_files[q].content)
                  => check.current_hash # First.digest

\* C9: the fingerprint depends on the relative paths and the contents only:
\* the same files with the same contents have the same fingerprint wherever the
\* repository is located and whatever their timestamps and permissions are.
C9_PureFunctionOfContent ==
    (BothTaken /\ ChangedContent = {}) => check.current_hash = First.digest

\* C6: in update mode a local repository whose fingerprint equals the stored
\* one is neither cleaned up nor handed to ingestion; the same repository with
\* the content of one file that ingestion processes modified is reported by
\* check_repository_changes, cleaned up and handed to ingestion.
C6_ChangeSkipScenario ==
    (BothTaken /\ ~check.db_raises /\ check.stored = First.digest) =>
        /\ check.current_hash = check.stored =>
              /\ LocalSource \notin check.cleaned
              /\ LocalSource \notin check.local_repositories
        /\ \A rel \in RelPaths :
              (OnlyContentChanged({rel}) /\ ShouldProcessFile(disk_root \o rel, disk_files[rel]))
                  => /\ LocalSource \in check.repos_to_update
                     /\ LocalSource \in check.cleaned
                     /\ LocalSource \in check.local_repositories

\* The thread waits for a lock that some thread holds.
Waiting(t) ==
    /\ lock_program[t] # <<>>
    /\ Head(lock_program[t])[1] = "acquire"
    /\ Holder(Head(lock_program[t])[2]) # NoThread

\* C10: the two locks are never nested: no thread holds sqlite_lock and
\* qdrant_lock at the same time, no thread tries to acquire a lock it holds,
\* and a thread that waits for a lock waits for a thread that does not wait
\* itself, so the writer cannot deadlock on its own locks.
C10_LocksNeverNested ==
    \A t \in Threads :
        /\ ~(sqlite_lock = t /\ qdrant_lock = t)
        /\ Waiting(t) =>
              /\ Holder(Head(lock_program[t])[2]) # t
              /\ ~Waiting(Holder(Head(lock_program[t])[2]))

\* One thread is in the Qdrant block of delete_repository_data while another
\* one, in write_repository_batch, holds sqlite_lock and waits for qdrant_lock.
C10_Witness ==
    \E t \in Threads, u \in Threads :
        /\ lock_op[t] = "delete_repository_data"
        /\ qdrant_lock = t
        /\ lock_op[u] = "write_repository_batch"
        /\ Waiting(u)
        /\ Head(lock_program[u])[2] = "qdrant_lock"

\* The last row of the list that write_documents_to_sqlite binds for an id.
LatestRow(rows, id) ==
    rows[CHOOSE i \in DOMAIN rows :
            /\ rows[i].id = id
            /\ \A j \in DOMAIN rows : rows[j].id = id => j <= i]

BatchIds == {ChunkId(last_batch.all_chunks[i]) : i \in DOMAIN last_batch.all_chunks}
BatchInvalid == {i \in DOMAIN last_batch.valid : ~last_batch.valid[i]}
BatchRows == {r \in RowsOf(chunk_rows, RepoId) : r.id \in BatchIds}
BatchPoints == {p \in RowsOf(points, RepoId) : p.chunk_id \in BatchIds}
BatchWritten ==
    /\ run.pc = "running"
    /\ last_batch.done
    /\ last_batch.all_chunks # <<>>
    /\ last_batch.failure \notin {"documents", "chunks"}

\* C2 as amended: in the batch-in-memory path every chunk of a batch has its
\* row in the relational store, one row per chunk id, whether or not its vector
\* was valid; of n chunks with k invalid vectors at most n - k points are
\* stored, each for a chunk with a valid vector, and when no call failed the
\* point id of every chunk with a valid vector holds a point of the batch;
\* when moreover the chunk ids and their point ids are distinct, exactly n - k
\* points are stored.
C2_ChunksNotGatedByEmbeddings ==
    BatchWritten =>
        LET cs == last_batch.all_chunks
            n == Len(cs)
            k == Cardinality(BatchInvalid)
        IN  /\ \A i \in DOMAIN cs :
                  \E r \in chunk_rows :
                      r.id = ChunkId(cs[i]) /\ r.content = cs[i].content /\ r.repo_id = RepoId
            /\ Cardinality(BatchRows) = Cardinality(BatchIds)
            /\ Cardinality(BatchPoints) <= n - k
            /\ \A p \in BatchPoints :
                  \E i \in DOMAIN cs : last_batch.valid[i] /\ ChunkId(cs[i]) = p.chunk_id
            /\ last_batch.failure = "none" =>
                  \A i \in DOMAIN cs :
                      last_batch.valid[i] =>
                          \E p \in BatchPoints : p.id = PointId(RepoId, ChunkId(cs[i]))
            /\ (/\ last_batch.failure = "none"
                /\ Cardinality(BatchIds) = n
                /\ Cardinality({PointId(RepoId, id) : id \in BatchIds}) = n)
                  => Cardinality(BatchPoints) = n - k

\* A batch of two chunks, one of them with an invalid vector: two chunk rows
\* and one point.
C2_Witness ==
    /\ BatchWritten
    /\ last_batch.failure = "none"
    /\ Len(last_batch.all_chunks) = 2
    /\ Cardinality(BatchInvalid) = 1
    /\ Cardinality(BatchRows) = 2
    /\ Cardinality(BatchPoints) = 1

\* C2 as stated: a batch of n chunks of which k get an invalid vector leaves n
\* chunk rows and exactly n - k points, when nothing fails.
C2_AsStated ==
    (BatchWritten /\ last_batch.failure = "none") =>
        /\ Cardinality(BatchRows) = Len(last_batch.all_chunks)
        /\ Cardinality(BatchPoints) = Len(last_batch.all_chunks) - Cardinality(BatchInvalid)

\* A complete ingestion into a store that holds nothing of the repository,
\* then a deletion, then a complete ingestion again, as entries i, i + 1 and
\* i + 2 of the log.
DeleteAndReingest(i) ==
    /\ i + 2 <= Len(log)
    /\ log[i].event = "ingest" /\ log[i].clean
    /\ i > 1 => (log[i - 1].event = "delete" /\ log[i - 1].outcome = "ok")
    /\ log[i + 1].event = "delete" /\ log[i + 1].outcome = "ok"
    /\ log[i + 2].event = "ingest" /\ log[i + 2].clean

TiersOf(path) ==
    {size \in FileSize :
        \E i \in DOMAIN classifications[size] : classifications[size][i].path = path}

C11_ChunksHaveDocuments ==
    \A c \in chunk_rows :
        \E d \in document_rows : d.id = c.doc_id /\ d.repo_id = c.repo_id

\* The document write of a batch failed while the repository already had
\* chunks: the batch left no chunk row.
C11_Witness ==
    /\ last_batch.done
    /\ last_batch.failure = "documents"
    /\ last_batch.all_chunks # <<>>
    /\ BatchRows = {}
    /\ Counts.chunks > 0

\* The step that ends a call of delete_repository_data, and the step that
\* ends a call of process_repository_adaptive.
DeleteStep ==
    /\ Len(log') = Len(log) + 1
    /\ log'[Len(log')].event = "delete"
IngestEnds ==
    /\ Len(log') = Len(log) + 1
    /\ log'[Len(log')].event = "ingest"

\* The rows of a repository in the three tables.
RelationalRows(repo_id, c, d, r) ==
    <<RowsOf(c, repo_id), RowsOf(d, repo_id), RowsOf(r, repo_id)>>

\* C15: a delete_repository_data that returns leaves no chunks, documents or
\* repositories row of the repository; one whose relational part raises
\* leaves the three tables as they were; the rows of the other repository
\* stay in both cases.
C15_RelationalDeleteAllOrNothing ==
    [][DeleteStep =>
          /\ log'[Len(log')].outcome # "sqlite_raises" =>
                RelationalRows(RepoId, chunk_rows', document_rows', repository_rows')
                    = <<{}, {}, {}>>
          /\ log'[Len(log')].outcome = "sqlite_raises" =>
                /\ chunk_rows' = chunk_rows
                /\ document_rows' = document_rows
                /\ repository_rows' = repository_rows
          /\ RelationalRows(OtherRepoId, chunk_rows', document_rows', repository_rows')
                = RelationalRows(OtherRepoId, chunk_rows, document_rows, repository_rows)
          /\ RowsOf(repository_rows, OtherRepoId) # {}]_vars

\* The relational delete of a repository with documents, chunks and a
\* repositories row raised, and the rows are all there.
C15_Witness ==
    /\ log # <<>>
    /\ log[Len(log)].event = "delete"
    /\ log[Len(log)].outcome = "sqlite_raises"
    /\ log[Len(log)].counts.documents > 0
    /\ log[Len(log)].counts.chunks > 0
    /\ Counts = log[Len(log)].counts
    /\ RowsOf(repository_rows, RepoId) # {}

\* C17 as amended: the repositories row of the repository changes only in a
\* deletion and at the end of a run that had processable files, after the
\* batches and the large files, once; the run then leaves the one row with
\* the totals of this run, whatever the row held before and whether or not a
\* batch or file of the run failed.
C17_MetadataUpsertedAtEnd ==
    [][/\ RowsOf(repository_rows', RepoId) # RowsOf(repository_rows, RepoId) =>
             \/ DeleteStep
             \/ /\ IngestEnds
                /\ run.pc = "running" /\ run.todo = <<>> /\ run.large = <<>>
       /\ (IngestEnds /\ log'[Len(log')].outcome = "done") =>
             /\ run.pc = "running" /\ run.todo = <<>> /\ run.large = <<>>
             /\ RowsOf(repository_rows', RepoId)
                   = {RepositoryRow(RepoId, run.total_files, run.total_chunks)}
       /\ (run.pc = "running" /\ run'.pc = "running") =>
             repository_rows' = repository_rows]_vars

\* A second run without a deletion in between, with a failure in one of the
\* two runs, replaced the row of the first: the row holds the totals of the
\* second run.
C17_Witness ==
    /\ Len(log) = 2
    /\ log[1].event = "ingest" /\ log[1].outcome = "done"
    /\ log[2].event = "ingest" /\ log[2].outcome = "done"
    /\ log[1].failed \/ log[2].failed
    /\ log[1].counts.documents > 0
    /\ run.pc = "done"
    /\ run.total_files > 0
    /\ RowsOf(repository_rows, RepoId)
          = {RepositoryRow(RepoId, run.total_files, run.total_chunks)}

\* C17 as stated: every run that does not report failure ends with the upsert
\* of the row, with the totals of the run.
C17_AsStated ==
    [][(IngestEnds /\ log'[Len(log')].outcome # "error") =>
          RowsOf(repository_rows', RepoId)
              = {RepositoryRow(RepoId, run'.total_files, run'.total_chunks)}]_vars

\* C20: in delete_repository_data a vector delete that fails leaves the
\* vectors where they are and the relational rows deleted; a relational
\* delete that raises leaves the vector store as it was; otherwise the
\* vectors of the repository go after its rows. The vectors of the other
\* repository stay.
C20_VectorDeleteBestEffort ==
    [][DeleteStep =>
          /\ log'[Len(log')].outcome = "qdrant_fails" =>
                /\ points' = points
                /\ RelationalRows(RepoId, chunk_rows', document_rows', repository_rows')
                      = <<{}, {}, {}>>
          /\ log'[Len(log')].outcome = "sqlite_raises" => points' = points
          /\ log'[Len(log')].outcome = "ok" =>
                /\ RowsOf(points', RepoId) = {}
                /\ RelationalRows(RepoId, chunk_rows', document_rows', repository_rows')
                      = <<{}, {}, {}>>
          /\ RowsOf(points', OtherRepoId) = RowsOf(points, OtherRepoId)]_vars

\* The vector delete of a repository with chunks and vectors failed: the
\* rows are gone, the vectors are there.
C20_Witness ==
    /\ log # <<>>
    /\ log[Len(log)].event = "delete"
    /\ log[Len(log)].outcome = "qdrant_fails"
    /\ log[Len(log)].counts.chunks > 0
    /\ log[Len(log)].counts.vectors > 0
    /\ Counts.chunks = 0
    /\ Counts.documents = 0
    /\ Counts.vectors = log[Len(log)].counts.vectors

\* C13 as stated: the point id is a function of (repo_id, chunk_id) alone, so
\* the collection never holds two points for one chunk of one repository.
C13_PointIdDeterministic ==
    \A p \in points, q \in points :
        (p.repo_id = q.repo_id /\ p.chunk_id = q.chunk_id) => p.id = q.id

\* A thread is at the statements that modify a store.
InWrite(t, store) ==
    /\ lock_program[t] # <<>>
    /\ Head(lock_program[t]) = Write(store)

\* C19: a thread that modifies the relational store, in whatever operation of
\* the writer, holds sqlite_lock, and one that upserts into or deletes from
\* the vector store holds qdrant_lock; so at most one thread at a time is
\* inside a write to each store.
C19_WritesUnderLock ==
    /\ \A t \in Threads :
          /\ InWrite(t, "sqlite") => sqlite_lock = t
          /\ InWrite(t, "qdrant") => qdrant_lock = t
    /\ \A store \in {"sqlite", "qdrant"} :
          Cardinality({t \in Threads : InWrite(t, store)}) <= 1

\* One thread writes documents while another one, in store_repository_hash,
\* waits for sqlite_lock.
C19_Witness ==
    \E t \in Threads, u \in Threads :
        /\ lock_op[t] = "write_documents_to_sqlite"
        /\ InWrite(t, "sqlite")
        /\ lock_op[u] = "store_repository_hash"
        /\ Waiting(u)
        /\ Head(lock_program[u])[2] = "sqlite_lock"

\* ------------------------------------------------------------------------
\* The loop of ETLWorkflow.run and the passes of main
\* ------------------------------------------------------------------------

\* The sources attempted so far in the pass, in the order of the attempts.
AttemptedSources ==
    [i \in DOMAIN workflow.attempted |-> workflow.attempted[i].source]

\* The rows a finished attempt of the pass left for its files.
RowsOfAttempt(attempt) ==
    {r \in catalog.document_rows :
        \E k \in 1..attempt.files :
            r = FileDocumentRow(workflow.pass, attempt.source, k,
                                GenerateRepoId(attempt.source))}

\* C12: the loop of ETLWorkflow.run attempts the existing local repositories
\* in their order, each entry of the list once, whatever the attempts before
\* it did: when the loop has ended every one of them was attempted, an
\* attempt that returned True on a repository with files left its rows, and
\* at every moment successful_uploads + failed_uploads is the number of
\* repositories attempted.
C12_EveryRepositoryAttempted ==
    /\ workflow.successful_uploads + workflow.failed_uploads = Len(workflow.attempted)
    /\ Len(workflow.attempted) <= Len(workflow.local_repositories)
    /\ \A i \in DOMAIN workflow.attempted :
          /\ workflow.attempted[i].source = workflow.local_repositories[i]
          /\ workflow.attempted[i].outcome = "True" /\ workflow.attempted[i].root = "readable"
                => Cardinality(RowsOfAttempt(workflow.attempted[i]))
                       = workflow.attempted[i].files
    /\ workflow.pc = "done" => AttemptedSources = workflow.local_repositories

\* A run whose first repository raised and whose second one was ingested.
C12_Witness ==
    /\ workflow.pc = "done"
    /\ Len(workflow.attempted) = 2
    /\ workflow.attempted[1].outcome = "raises"
    /\ workflow.attempted[2].outcome = "True"
    /\ workflow.attempted[2].files > 0
    /\ workflow.successful_uploads = 1
    /\ workflow.failed_uploads = 1

\* C18 as stated: the attempt on a repository whose root is missing or cannot
\* be listed does not report success.
C18_UnlistableRootReportsFailure ==
    \A i \in DOMAIN workflow.attempted :
        workflow.attempted[i].root \in {"missing", "unreadable"}
            => workflow.attempted[i].outcome # "True"

\* C14 as stated: with no failure in any pass, no source file has more than
\* one row in documents.
C14_OneDocumentsRowPerSourceFile ==
    ~workflow.faulted =>
        \A d1, d2 \in catalog.document_rows : d1.file_path = d2.file_path => d1 = d2

\* ------------------------------------------------------------------------
\* Isolation of failures inside a batch and inside a streamed file
\* ------------------------------------------------------------------------

\* Whether a chunk of the last batch or file has its row, and whether the
\* collection holds a point under its id.
HasRow(chunk) == \E r \in RowsOf(chunk_rows, RepoId) : r.id = ChunkId(chunk)
HasPoint(chunk) ==
    \E p \in RowsOf(points, RepoId) : p.id = PointId(RepoId, ChunkId(chunk))

\* The position of chunk i among the chunks with a valid vector.
ValidPosition(i) == Cardinality({j \in 1..i : last_batch.valid[j]})

\* The chunks of the sub-batch of the streamed file the failure struck.
StruckSubBatch ==
    {i \in DOMAIN last_batch.all_chunks :
        last_batch.fails_at <= i /\ i < last_batch.fails_at + StreamBatchSize}

\* C21 as amended: a failed embedding call and a failed upsert cost only the
\* vectors of their own sub-batch, all chunks are still written and the other
\* sub-batches get their points; a relational write that raises abandons the
\* whole batch in the batch path and, in the stream path, the sub-batch it
\* struck and every later one of the file; in each case the run goes on.
C21_FailureIsolation ==
    LET cs == last_batch.all_chunks
        valid == last_batch.valid
        failure == last_batch.failure
    IN  /\ (last_batch.done \/ last_batch.streamed) => run.pc = "running"
        /\ (last_batch.done /\ failure = "generate") =>
              \A i \in DOMAIN cs :
                  /\ HasRow(cs[i])
                  /\ (i > EmbedBatchSize /\ valid[i]) => HasPoint(cs[i])
        /\ (last_batch.done /\ failure = "upsert") =>
              \A i \in DOMAIN cs :
                  /\ HasRow(cs[i])
                  /\ (valid[i] /\ ValidPosition(i) > UpsertBatchSize) => HasPoint(cs[i])
        /\ (last_batch.done /\ failure \in {"documents", "chunks"}) =>
              \A i \in DOMAIN cs : ~HasRow(cs[i])
        /\ (last_batch.streamed /\ failure \in {"generate", "upsert"}) =>
              \A i \in DOMAIN cs :
                  /\ HasRow(cs[i])
                  /\ (valid[i] /\ i \notin StruckSubBatch) => HasPoint(cs[i])
        /\ (last_batch.streamed /\ failure = "chunks") =>
              \A i \in DOMAIN cs :
                  /\ i < last_batch.fails_at
                        => HasRow(cs[i]) /\ (valid[i] => HasPoint(cs[i]))
                  /\ (/\ i >= last_batch.fails_at
                      /\ \A j \in 1..(last_batch.fails_at - 1) :
                            ChunkId(cs[j]) # ChunkId(cs[i]))
                        => ~HasRow(cs[i])
        /\ (last_batch.streamed /\ failure = "documents") =>
              \A i \in DOMAIN cs : ~HasRow(cs[i])

\* A batch of at least three valid chunks whose first upsert failed and whose
\* later points are stored, and a streamed file of two chunks whose first
\* embedding call failed and whose second chunk has its point.
C21_Witness ==
    \/ /\ last_batch.done
       /\ last_batch.failure = "upsert"
       /\ \E i \in DOMAIN last_batch.all_chunks :
             /\ last_batch.valid[i]
             /\ ValidPosition(i) > UpsertBatchSize
             /\ HasPoint(last_batch.all_chunks[i])
       /\ ~HasPoint(last_batch.all_chunks[1])
    \/ /\ last_batch.streamed
       /\ last_batch.failure = "generate"
       /\ last_batch.fails_at = 1
       /\ Len(last_batch.all_chunks) = 2
       /\ last_batch.valid[2]
       /\ HasPoint(last_batch.all_chunks[2])
       /\ ~HasPoint(last_batch.all_chunks[1])

\* C21 as stated: a store write that raises abandons only the sub-batch it
\* struck, the other sub-batches of the file are written.
C21_OnlyThatSubBatchAbandoned ==
    (last_batch.streamed /\ last_batch.failure = "chunks") =>
        \A i \in DOMAIN last_batch.all_chunks :
            i \notin StruckSubBatch => HasRow(last_batch.all_chunks[i])

\* ------------------------------------------------------------------------
\* Fingerprints of a repository with a file that cannot be read
\* ------------------------------------------------------------------------

\* The files calculate_repository_hash opens and fails to read, the
\* repository being as it is.
ReadFailures ==
    {rel \in RelPaths :
        /\ disk_exists
        /\ IsFile(disk_files, rel)
        /\ ~ShouldSkipFile(disk_root \o rel, disk_files[rel])
        /\ ~disk_files[rel].readable}

\* C22 as stated: a repository in which a file could not be read while its
\* fingerprint was computed is not reported as unchanged by
\* check_repository_changes.
C22_ReadFailureMeansChanged ==
    (check.done /\ ReadFailures # {}) => LocalSource \in check.repos_to_update

\* ------------------------------------------------------------------------
\* The pre-filter of the processor and the tiers
\* ------------------------------------------------------------------------

\* The strategies process_repository_adaptive invokes: those whose list of
\* files is not empty.
MemoryMappedInvoked == classifications[EXTRA_LARGE] # <<>>
ChunkedStreamInvoked == classifications[LARGE] # <<>>

\* C23: after the pre-filter and the classification no file over 100 MB is
\* in any list, so the LARGE list holds files of 50 MB to 100 MB only, the
\* EXTRA_LARGE list is empty and the memory-mapped strategy is not invoked.
C23_NothingOverCeilingIsProcessed ==
    classified =>
        /\ \A size \in FileSize : \A i \in DOMAIN classifications[size] :
              classifications[size][i].size_bytes <= 100 * MB
        /\ \A i \in DOMAIN file_paths :
              file_paths[i].size_bytes > 100 * MB => TiersOf(i) = {}
        /\ \A i \in DOMAIN classifications[LARGE] :
              /\ classifications[LARGE][i].size_bytes >= 50 * MB
              /\ classifications[LARGE][i].size_bytes <= 100 * MB
        /\ ~MemoryMappedInvoked

\* A repository with a file of 100 MB and a byte and a file of exactly
\* 100 MB: the first is in no list, the second went to the chunked stream.
C23_Witness ==
    /\ classified
    /\ \E i, j \in DOMAIN file_paths :
          /\ file_paths[i].is_file
          /\ file_paths[i].size_bytes = 100 * MB + 1
          /\ TiersOf(i) = {}
          /\ file_paths[j].is_file
          /\ file_paths[j].size_bytes = 100 * MB
          /\ TiersOf(j) = {LARGE}
    /\ ChunkedStreamInvoked

\* ------------------------------------------------------------------------
\* Decoding and dropping of files in the three strategies
\* ------------------------------------------------------------------------

\* The file was handed to one of the strategies and no document came of it.
Dropped == reader_out.strategy # "none" /\ reader_out.document = NoDocument

\* Content that is empty, whitespace-only or shorter than the minimum.
Insufficient(content) == Len(Strip(content)) < MinContentLength

\* C24: in each of the three strategies a file that is not valid UTF-8 is
\* decoded with the byte-preserving fallback, and a file is dropped exactly
\* when no decoding succeeded or its content is empty, whitespace-only or
\* shorter than the minimum.
C24_SameDecodingInEveryStrategy ==
    reader_out.strategy # "none" =>
        /\ ~Utf8Decode(reader_file).ok =>
               reader_out.decoded # NoContent
        /\ Dropped <=>
               (reader_out.decoded = NoContent \/ Insufficient(reader_out.decoded))

\* The chunked stream keeps a file of whitespace only.
C24_StreamKeepsWhitespace ==
    /\ reader_out.strategy = "chunked"
    /\ reader_file # <<>>
    /\ \A i \in DOMAIN reader_file : reader_file[i] = Space
    /\ ~Dropped

\* The memory-mapped stream drops a file that Latin-1 decodes.
C24_MmapDropsNonUtf8 ==
    /\ reader_out.strategy = "mmap"
    /\ ~Utf8Decode(reader_file).ok
    /\ ~Insufficient(Latin1Decode(reader_file).chars)
    /\ Dropped

\* The batch strategy alone does what C24 says.
C24_BatchStrategy ==
    reader_out.strategy = "batch" =>
        /\ reader_out.decoded # NoContent
        /\ ~Utf8Decode(reader_file).ok =>
               reader_out.decoded = Latin1Decode(reader_file).chars
        /\ Dropped <=> Insufficient(reader_out.decoded)

\* The whole file decoded with a single encoding: UTF-8 if it is valid
\* UTF-8, Latin-1 otherwise.
DecodedOnce(bytes) ==
    IF Utf8Decode(bytes).ok THEN Utf8Decode(bytes).chars ELSE Latin1Decode(bytes).chars

\* C29: the pieces read_file_chunks yields for a file, put together, are the
\* whole file decoded with a single encoding, also when the Latin-1
\* fallback takes over after some pieces were yielded.
C29_EveryPieceOnce ==
    reader_out.strategy = "chunked" =>
        Concat(reader_out.pieces) = DecodedOnce(reader_file)

\* The fallback takes over after a piece was yielded, and the content has
\* that piece twice.
C29_PieceYieldedTwice ==
    /\ reader_out.strategy = "chunked"
    /\ ~Utf8Decode(reader_file).ok
    /\ Len(Utf8Decode(reader_file).chars) >= ChunkSizeChars
    /\ Len(Concat(reader_out.pieces)) > Len(reader_file)

\* A file that is valid UTF-8, or whose first invalid byte is met by the
\* first read, is yielded once.
C29_OnceWithoutLateFallback ==
    /\ reader_out.strategy = "chunked"
    /\ \/ Utf8Decode(reader_file).ok
       \/ Len(Utf8Decode(reader_file).chars) < ChunkSizeChars
    => Concat(reader_out.pieces) = DecodedOnce(reader_file)

\* ------------------------------------------------------------------------
\* The embedding dimension, the collection and the writer singleton
\* ------------------------------------------------------------------------

\* C25: the collection has the dimension the service detected, so every
\* embedding that passed the dimension check of the service has the length
\* the collection was created with.
C25_CollectionHasDetectedDimension ==
    (service.constructed /\ writer_class.initialized) =>
        /\ qdrant_collection.size = service.embedding_dim
        /\ \A length \in service.passed : length = qdrant_collection.size

\* The first half of C25 alone: once detected, the dimension of the service
\* stays what it is.
C25_DimensionFixedAtInit ==
    [][service.constructed => service'.embedding_dim = service.embedding_dim]_vars

\* An embedding passed the check of the service and the collection this
\* process created has another dimension.
C25_PassedButWrongSize ==
    /\ writer_class.initialized
    /\ \E length \in service.passed : length # qdrant_collection.size
    /\ qdrant_collection.size = writer_class.config_dim

\* The attributes __init__ sets, all set.
FullyInitialised(self) ==
    /\ self.locks
    /\ self.paths
    /\ self.qdrant_client = "open"
    /\ self.tables

\* C30: every writer returned to a caller is fully initialised, and an
\* initialisation that completed is not run again.
C30_OnlyInitialisedWritersHandedOut ==
    \A i \in DOMAIN handed_out :
        handed_out[i].returned =>
            /\ FullyInitialised(handed_out[i].self)
            /\ handed_out[i].self.completed = 1

\* get_instance returned the object of a constructor call that raised.
C30_HalfBuiltWriterReturned ==
    \E i, j \in DOMAIN handed_out :
        /\ i < j
        /\ ~handed_out[i].returned
        /\ handed_out[j].via = "get_instance"
        /\ handed_out[j].returned
        /\ handed_out[j].self.qdrant_client = "None"
        /\ ~handed_out[j].self.tables

\* The second half of C30 alone: __init__ completes at most once.
C30_InitialisedAtMostOnce == writer_self.completed <= 1

\* ------------------------------------------------------------------------
\* Update mode: what a stored fingerprint stands for, and convergence
\* ------------------------------------------------------------------------

\* After the run the stored fingerprint is the one of the repository on disk.
FingerprintCurrent(r) == r.db.row /\ r.db.content_hash = Digest(r.disk)

\* C26: after an update-mode run a fingerprint equal to the current one is
\* stored only if the ingestion of that run succeeded, abandoned no batch and
\* wrote every processable file of the repository.
C26_FingerprintVouchesForData ==
    \A i \in DOMAIN update_runs :
        LET r == update_runs[i]
        IN  (~r.skipped /\ FingerprintCurrent(r)) =>
                /\ r.outcome = "True"
                /\ r.written = 1..r.disk.files

\* A run abandoned a batch and stored the current fingerprint all the same.
C26_FingerprintOverMissingRows ==
    \E i \in DOMAIN update_runs :
        LET r == update_runs[i]
        IN  /\ r.outcome = "True"
            /\ r.written # 1..r.disk.files
            /\ FingerprintCurrent(r)
            /\ \E k \in 1..r.disk.files :
                   [file |-> k, version |-> r.disk.version] \notin r.db.documents

\* Run i ingested the repository and reported success with nothing going
\* wrong, run j found the repository as run i had left it and could
\* compute its fingerprint.
SuccessThenUnchanged(i, j) ==
    /\ ~update_runs[i].skipped
    /\ update_runs[i].outcome = "True"
    /\ ~update_runs[i].faulted
    /\ update_runs[j].disk = update_runs[i].disk
    /\ ~update_runs[j].faulted

C27_NeverConverges ==
    /\ Len(update_runs) = MaxRuns
    /\ \A i \in DOMAIN update_runs :
        /\ update_runs[i].disk.files = 0
        /\ update_runs[i].outcome = "True"
        /\ ~update_runs[i].faulted

\* ------------------------------------------------------------------------
\* The totals of the repositories row and the rows they count
\* ------------------------------------------------------------------------

\* The first event of the process is an ingestion of the repository, which
\* had no rows, and it has finished with its metadata upsert.
FirstIngestFinished ==
    /\ run.pc = "done"
    /\ Len(log) = 1
    /\ log[1].event = "ingest"
    /\ log[1].outcome = "done"

\* C28: when process_repository_adaptive finishes for a repository that had
\* no rows before, total_files of its repositories row is the number of its
\* documents rows and total_chunks the number of its chunks rows, also when
\* some batch, file or sub-batch of the run failed.
C28_TotalsMatchStoredRows ==
    FirstIngestFinished =>
        \A r \in RowsOf(repository_rows, RepoId) :
            /\ r.total_files = Counts.documents
            /\ r.total_chunks = Counts.chunks

\* A run without any failure whose total_chunks is not the number of chunks
\* rows: two chunks of a document have the same text and share a row.
C28_MismatchWithoutFailure ==
    /\ FirstIngestFinished
    /\ ~log[1].failed
    /\ \E r \in RowsOf(repository_rows, RepoId) :
        r.total_chunks # Counts.chunks

\* A file whose chunk write raised left its documents row and is not counted.
C28_UncountedDocumentRow ==
    /\ FirstIngestFinished
    /\ log[1].failed
    /\ \E r \in RowsOf(repository_rows, RepoId) :
        r.total_files < Counts.documents

====
